---- MODULE Spec2Model ----
(***************************************************************************)
(* Footnote and citation extraction engine (src/src/lib/footnotes.ts and   *)
(* src/src/lib/citations.ts) as a state machine.                           *)
(*                                                                         *)
(* Text is a sequence of one-character strings, so that every substring,   *)
(* trim and regular-expression step of the source is computed character by *)
(* character.  Character offsets are 0-based as in the source; the TLA+    *)
(* sequence index of offset i is i + 1.                                    *)
(***************************************************************************)
EXTENDS Integers, Sequences, FiniteSets, TLC

VARIABLES
    \* --- splitRichTextsAtCharPosition applied to an input (both copies)
    richTexts,        \* the span sequence handed to the function
    splitCharPos,     \* the cut position handed to the function
    splitFn,          \* result of the footnotes.ts copy  [done, before, after]
    splitCit,         \* result of the citations.ts copy  [done, before, after]
    rangeResult,      \* result of extractRichTextRange over the whole text [done, richTexts]
    prefixResult,     \* result of removeMarkerPrefix(richTexts, splitCharPos) [done, richTexts]
    \* --- extractFootnotesFromBlock applied to a block
    config,           \* in-page-footnotes-settings.source: the three switches
    fnInput,          \* the block as handed to the extraction
    fnBlock,          \* the block, mutated in place by the extraction
    fnResult,         \* the FootnoteExtractionResult returned
    fnStage,          \* "ready" before the call, "done" after it returned
    \* --- extractBlockCommentsFootnotes: the call in progress
    notionClient,     \* TRUE when a client with a comments API was handed over
    response,         \* response.results: what comments.list answers for the block
    commentIndex,     \* the comment the for loop has reached
    patternLastIndex, \* contentPattern.lastIndex
    bcFootnotes,      \* the footnotes pushed so far
    listCalls,        \* calls of notionClient.comments.list made so far
    logged,           \* "warn" / "error": what the catch block wrote, else "none"
    \* --- the bibliography cache directory, the remote sources, the calls
    lastBuildTime,    \* LAST_BUILD_TIME: 0 when null, else a time
    now,              \* the clock read by new Date()
    bibFile,          \* url -> whether <hash>.bib exists
    metaFile,         \* url -> <hash>.meta.json (a BibFileMeta), or absent
    parsedFile,       \* url -> parsed_<hash>.json (a Map of entries), or absent
    mappingFile,      \* bib-files-mapping.json: url -> entry, or absent
    combinedFile,     \* combined-entries.json, or absent
    remote,           \* url -> what the download and the probe answer
    call,             \* url -> the fetchBibTeXFile call for it: position and locals
    fetchCalls,       \* url -> fetchBibTeXFile calls made so far
    merge,            \* the parseBibTeXFiles call: position and locals
    \* --- extractCitationsFromBlock applied to a block
    citConfig,        \* in-text-citation-format and bibliography style
    bibEntries,       \* the Map of ParsedCitationEntry handed over
    citInput,         \* the block as handed to the extraction
    citBlock,         \* the block, mutated in place by the extraction
    citResult,        \* the CitationExtractionResult returned
    citStage,         \* "ready" before the call, "done" after it returned
    \* --- prepareBibliography applied to a list of citations
    prepCitations,    \* the citations handed over
    prepStyle,        \* "apa" or "simplified-ieee"
    sorted,           \* the list returned
    prepStage         \* "ready" before the call, "done" after it returned

splitVars == <<richTexts, splitCharPos, splitFn, splitCit, rangeResult, prefixResult>>

fnVars == <<config, fnInput, fnBlock, fnResult, fnStage>>

bcVars == <<notionClient, response, commentIndex, patternLastIndex, bcFootnotes, listCalls, logged>>

bibVars == <<lastBuildTime, now, bibFile, metaFile, parsedFile, mappingFile,
             combinedFile, remote, call, fetchCalls, merge>>

prepVars == <<prepCitations, prepStyle, sorted, prepStage>>

citVars == <<citConfig, bibEntries, citInput, citBlock, citResult, citStage, prepVars>>

vars == <<splitVars, fnVars, bcVars, bibVars, citVars>>

----------------------------------------------------------------------------
(* Bounds of the model.                                                    *)

MaxSpans == 3
MaxSpanLen == 2
MaxTokens == 3
MaxCellTokens == 2
MaxBodyTokens == 2
MaxChildren == 3

----------------------------------------------------------------------------
(* Characters and strings.                                                 *)

Lower ==
    {"a","b","c","d","e","f","g","h","i","j","k","l","m",
     "n","o","p","q","r","s","t","u","v","w","x","y","z"}

Upper ==
    {"A","B","C","D","E","F","G","H","I","J","K","L","M",
     "N","O","P","Q","R","S","T","U","V","W","X","Y","Z"}

Digits ==
    {"0","1","2","3","4","5","6","7","8","9"}

\* [a-zA-Z0-9_], which is also \w
KeyChars ==
    Lower \cup Upper \cup Digits \cup {"_"}

\* [a-zA-Z0-9_\-:]
CiteKeyChars ==
    KeyChars \cup {"-", ":"}

\* \s, and the characters String.prototype.trim removes
SpaceChars ==
    {" ", "\t", "\n", "\r", "\f"}

\* the characters after which the multiline anchor ^ matches
LineTerminators ==
    {"\n", "\r"}

Min(a, b) ==
    IF a <= b THEN a ELSE b

Max(a, b) ==
    IF a >= b THEN a ELSE b

\* String.prototype.substring(from, to) on 0-based offsets, arguments clamped
substring(s, from, to) ==
    LET a == Min(Max(from, 0), Len(s))
        b == Min(Max(to, 0), Len(s))
    IN  IF a >= b THEN << >> ELSE SubSeq(s, a + 1, b)

\* String.prototype.substring(from)
substringFrom(s, from) ==
    substring(s, from, Len(s))

\* number of leading whitespace characters
LeadingSpaces(s) ==
    CHOOSE n \in 0..Len(s) :
        /\ \A i \in 1..n : s[i] \in SpaceChars
        /\ (n = Len(s) \/ s[n + 1] \notin SpaceChars)

\* number of trailing whitespace characters
TrailingSpaces(s) ==
    CHOOSE n \in 0..Len(s) :
        /\ \A i \in (Len(s) - n + 1)..Len(s) : s[i] \in SpaceChars
        /\ (n = Len(s) \/ s[Len(s) - n] \notin SpaceChars)

trimStart(s) ==
    substringFrom(s, LeadingSpaces(s))

trimEnd(s) ==
    substring(s, 0, Len(s) - TrailingSpaces(s))

trim(s) ==
    trimEnd(trimStart(s))

\* whether the literal lit occurs in s at offset i
MatchLit(s, i, lit) ==
    /\ i >= 0
    /\ i + Len(lit) <= Len(s)
    /\ \A j \in 1..Len(lit) : s[i + j] = lit[j]

\* offset just after the longest run of characters of class cls starting at i
RECURSIVE RunEnd(_, _, _)
RunEnd(s, i, cls) ==
    IF i < Len(s) /\ s[i + 1] \in cls THEN RunEnd(s, i + 1, cls) ELSE i

RECURSIVE Concat(_)
Concat(ss) ==
    IF ss = << >> THEN << >> ELSE Head(ss) \o Concat(Tail(ss))

----------------------------------------------------------------------------
(* RichText spans.                                                         *)

DefaultAnnotation ==
    [Bold |-> FALSE, Italic |-> FALSE, Strikethrough |-> FALSE,
     Underline |-> FALSE, Code |-> FALSE, Color |-> "default"]

NoText ==
    [present |-> FALSE, Content |-> << >>, Link |-> ""]

\* a RichText; an absent optional field is "" (or present = FALSE for Text)
MkRichText(plain, text, annotation, equation, mention) ==
    [PlainText |-> plain, Text |-> text, Annotation |-> annotation,
     Equation |-> equation, Mention |-> mention, InternalHref |-> "",
     IsFootnoteMarker |-> FALSE, FootnoteRef |-> << >>,
     IsCitationMarker |-> FALSE, CitationRef |-> << >>]

joinPlainText(rts) ==
    Concat([i \in 1..Len(rts) |-> rts[i].PlainText])

cloneRichText_DropsLink(richText) ==
    [richText EXCEPT
        !.Text = IF richText.Text.present
                 THEN [present |-> TRUE, Content |-> richText.Text.Content,
                       Link |-> ""]
                 ELSE NoText]

\* a copy, field by field: the spread keeps every field, the five nested
\* records are rebuilt from their own fields
cloneRichText(richText) ==
    [richText EXCEPT
        !.Text = IF richText.Text.present
                 THEN [present |-> TRUE, Content |-> richText.Text.Content,
                       Link |-> richText.Text.Link]
                 ELSE NoText,
        !.Annotation = [Bold |-> richText.Annotation.Bold,
                        Italic |-> richText.Annotation.Italic,
                        Strikethrough |-> richText.Annotation.Strikethrough,
                        Underline |-> richText.Annotation.Underline,
                        Code |-> richText.Annotation.Code,
                        Color |-> richText.Annotation.Color],
        !.Equation = richText.Equation,
        !.Mention = richText.Mention,
        !.InternalHref = richText.InternalHref]

\* PlainText replaced, and Text.Content with it when the span has a Text
WithPlainText(rt, plain) ==
    [rt EXCEPT !.PlainText = plain,
               !.Text = IF rt.Text.present
                        THEN [rt.Text EXCEPT !.Content = plain]
                        ELSE rt.Text]

----------------------------------------------------------------------------
(* splitRichTextsAtCharPosition, footnotes.ts.                             *)

\* the span that holds the cut: its part before the cut, its part after
SplitStraddle_DropsChar(richText, splitOffset) ==
    LET length == Len(richText.PlainText)
    IN  [before |->
            IF splitOffset > 0
            THEN << WithPlainText(cloneRichText(richText),
                                  substring(richText.PlainText, 0, splitOffset)) >>
            ELSE << >>,
         after |->
            IF splitOffset + 1 < length
            THEN << WithPlainText(cloneRichText(richText),
                                  substringFrom(richText.PlainText, splitOffset + 1)) >>
            ELSE << >>]

SplitStraddle(richText, splitOffset) ==
    LET length == Len(richText.PlainText)
    IN  [before |->
            IF splitOffset > 0
            THEN << WithPlainText(cloneRichText(richText),
                                  substring(richText.PlainText, 0, splitOffset)) >>
            ELSE << >>,
         after |->
            IF splitOffset < length
            THEN << WithPlainText(cloneRichText(richText),
                                  substringFrom(richText.PlainText, splitOffset)) >>
            ELSE << >>]

RECURSIVE SplitLoop(_, _, _, _, _, _)
SplitLoop(rts, pos, i, currentPos, before, after) ==
    IF i > Len(rts)
    THEN [before |-> before, after |-> after]
    ELSE LET richText == rts[i]
             length == Len(richText.PlainText)
             rtStart == currentPos
             rtEnd == currentPos + length
         IN  IF pos <= rtStart
             THEN SplitLoop(rts, pos, i + 1, rtEnd, before, Append(after, richText))
             ELSE IF pos >= rtEnd
             THEN SplitLoop(rts, pos, i + 1, rtEnd, Append(before, richText), after)
             ELSE LET parts == SplitStraddle(richText, pos - rtStart)
                  IN  SplitLoop(rts, pos, i + 1, rtEnd,
                                before \o parts.before, after \o parts.after)

splitRichTextsAtCharPosition(rts, pos) ==
    SplitLoop(rts, pos, 1, 0, << >>, << >>)

----------------------------------------------------------------------------
(* splitRichTextsAtCharPosition, citations.ts (a second copy of the code). *)

CitSplitStraddle(richText, splitOffset) ==
    LET length == Len(richText.PlainText)
    IN  [before |->
            IF splitOffset > 0
            THEN << WithPlainText(cloneRichText(richText),
                                  substring(richText.PlainText, 0, splitOffset)) >>
            ELSE << >>,
         after |->
            IF splitOffset < length
            THEN << WithPlainText(cloneRichText(richText),
                                  substringFrom(richText.PlainText, splitOffset)) >>
            ELSE << >>]

RECURSIVE CitSplitLoop(_, _, _, _, _, _)
CitSplitLoop(rts, pos, i, currentPos, before, after) ==
    IF i > Len(rts)
    THEN [before |-> before, after |-> after]
    ELSE LET richText == rts[i]
             length == Len(richText.PlainText)
             rtStart == currentPos
             rtEnd == currentPos + length
         IN  IF pos <= rtStart
             THEN CitSplitLoop(rts, pos, i + 1, rtEnd, before, Append(after, richText))
             ELSE IF pos >= rtEnd
             THEN CitSplitLoop(rts, pos, i + 1, rtEnd, Append(before, richText), after)
             ELSE LET parts == CitSplitStraddle(richText, pos - rtStart)
                  IN  CitSplitLoop(rts, pos, i + 1, rtEnd,
                                   before \o parts.before, after \o parts.after)

citSplitRichTextsAtCharPosition(rts, pos) ==
    CitSplitLoop(rts, pos, 1, 0, << >>, << >>)

----------------------------------------------------------------------------
(* Blocks and locations.                                                   *)
(*                                                                         *)
(* A block is [Id, Type, RichTexts, HasChildren, Children].  RichTexts is  *)
(* the list of the block's rich-text fields: one for a Paragraph           *)
(* (Paragraph.RichTexts), one for an NImage (NImage.Caption), one per cell *)
(* for a Table (a single row).  HasChildren = FALSE is a block whose       *)
(* Children property is undefined.                                         *)

MkBlock(id, type, rts, hasChildren, children) ==
    [Id |-> id, Type |-> type, RichTexts |-> rts,
     HasChildren |-> hasChildren, Children |-> children]

\* the property path of the i-th rich-text field of a block
PropertyOf(block, i) ==
    IF block.Type = "Paragraph"
    THEN [path |-> "Paragraph.RichTexts", row |-> 0, cell |-> 0]
    ELSE IF block.Type = "NImage"
    THEN [path |-> "NImage.Caption", row |-> 0, cell |-> 0]
    ELSE [path |-> "Table.Rows[].Cells[]", row |-> 0, cell |-> i - 1]

RECURSIVE LocationsFrom(_, _)
LocationsFrom(block, i) ==
    IF i > Len(block.RichTexts)
    THEN << >>
    ELSE (IF Len(block.RichTexts[i]) > 0
          THEN << [property |-> PropertyOf(block, i), field |-> i,
                   richTexts |-> block.RichTexts[i]] >>
          ELSE << >>)
         \o LocationsFrom(block, i + 1)

\* every non-empty rich-text field of the block, not of its children
getAllRichTextLocations(block) ==
    LocationsFrom(block, 1)

\* location.setter(newRichTexts): the field of the block is replaced
Setter(block, location, newRichTexts) ==
    [block EXCEPT !.RichTexts[location.field] = newRichTexts]

----------------------------------------------------------------------------
(* Marker finder.                                                          *)

\* config["in-page-footnotes-settings"]["marker-prefix"]
MarkerPrefix ==
    <<"f", "t", "_">>

\* the pattern \[\^<prefix>([a-zA-Z0-9_]+)\](?!:) tried at offset i: the
\* offset after the match, or -1
InlineMatchEnd(s, i, prefix) ==
    LET lit == <<"[", "^">> \o prefix
        p == i + Len(lit)
        e == RunEnd(s, p, KeyChars)
    IN  IF /\ MatchLit(s, i, lit)
           /\ e > p
           /\ e < Len(s)
           /\ s[e + 1] = "]"
           /\ ~(e + 1 < Len(s) /\ s[e + 2] = ":")
        THEN e + 1
        ELSE -1

\* the same pattern without its lookahead
InlineMatchEnd_NoLookahead(s, i, prefix) ==
    LET lit == <<"[", "^">> \o prefix
        p == i + Len(lit)
        e == RunEnd(s, p, KeyChars)
    IN  IF /\ MatchLit(s, i, lit)
           /\ e > p
           /\ e < Len(s)
           /\ s[e + 1] = "]"
        THEN e + 1
        ELSE -1

\* pattern.exec in a loop from lastIndex = from: the matches, left to right
RECURSIVE InlineMatches(_, _, _)
InlineMatches(s, from, prefix) ==
    IF from >= Len(s)
    THEN << >>
    ELSE LET e == InlineMatchEnd(s, from, prefix)
         IN  IF e >= 0
             THEN << [index |-> from, end |-> e,
                      key |-> substring(s, from + 2 + Len(prefix), e - 1)] >>
                  \o InlineMatches(s, e, prefix)
             ELSE InlineMatches(s, from + 1, prefix)

\* index of the span that holds offset charStart (0 when none does), by the
\* running-length walk
RECURSIVE RichTextIndexAt(_, _, _, _)
RichTextIndexAt(rts, charStart, i, currentPos) ==
    IF i > Len(rts)
    THEN 0
    ELSE LET len == Len(rts[i].PlainText)
         IN  IF currentPos <= charStart /\ charStart < currentPos + len
             THEN i
             ELSE RichTextIndexAt(rts, charStart, i + 1, currentPos + len)

RECURSIVE MarkersOfMatches_IgnoresCode(_, _)
MarkersOfMatches_IgnoresCode(location, matches) ==
    IF matches = << >>
    THEN << >>
    ELSE LET m == Head(matches)
             idx == RichTextIndexAt(location.richTexts, m.index, 1, 0)
         IN  (IF idx > 0
              THEN << [Marker |-> m.key,
                       FullMarker |-> substring(joinPlainText(location.richTexts),
                                                m.index, m.end),
                       BlockProperty |-> location.property,
                       RichTextIndex |-> idx - 1,
                       CharStart |-> m.index,
                       CharEnd |-> m.end] >>
              ELSE << >>)
             \o MarkersOfMatches_IgnoresCode(location, Tail(matches))

\* the markers pushed for the matches of a location
RECURSIVE MarkersOfMatches(_, _)
MarkersOfMatches(location, matches) ==
    IF matches = << >>
    THEN << >>
    ELSE LET m == Head(matches)
             idx == RichTextIndexAt(location.richTexts, m.index, 1, 0)
             inCode == idx > 0 /\ location.richTexts[idx].Annotation.Code
         IN  (IF ~inCode /\ idx > 0
              THEN << [Marker |-> m.key,
                       FullMarker |-> substring(joinPlainText(location.richTexts),
                                                m.index, m.end),
                       BlockProperty |-> location.property,
                       RichTextIndex |-> idx - 1,
                       CharStart |-> m.index,
                       CharEnd |-> m.end] >>
              ELSE << >>)
             \o MarkersOfMatches(location, Tail(matches))

RECURSIVE findAllFootnoteMarkers(_, _)
findAllFootnoteMarkers(locations, markerPrefix) ==
    IF locations = << >>
    THEN << >>
    ELSE MarkersOfMatches(Head(locations),
                          InlineMatches(joinPlainText(Head(locations).richTexts),
                                        0, markerPrefix))
         \o findAllFootnoteMarkers(Tail(locations), markerPrefix)

----------------------------------------------------------------------------
(* splitRichTextWithMarkers.                                               *)

\* Array.prototype.sort by descending CharStart (stable)
RECURSIVE SortByCharStartDesc(_)
SortByCharStartDesc(ms) ==
    IF ms = << >>
    THEN << >>
    ELSE LET top == CHOOSE i \in 1..Len(ms) :
                        /\ \A j \in 1..Len(ms) : ms[j].CharStart <= ms[i].CharStart
                        /\ \A j \in 1..(i - 1) : ms[j].CharStart < ms[i].CharStart
             rest == [j \in 1..(Len(ms) - 1) |-> IF j < top THEN ms[j] ELSE ms[j + 1]]
         IN  << ms[top] >> \o SortByCharStartDesc(rest)

RECURSIVE SplitMarkersLoop_MarksAsCode(_, _)
SplitMarkersLoop_MarksAsCode(result, locationMarkers) ==
    IF locationMarkers = << >>
    THEN result
    ELSE LET marker == Head(locationMarkers)
             s1 == splitRichTextsAtCharPosition(result, marker.CharStart)
             s2 == splitRichTextsAtCharPosition(s1.after, Len(marker.FullMarker))
             markerPart ==
                 IF Len(s2.before) > 0
                 THEN << [s2.before[1] EXCEPT !.IsFootnoteMarker = TRUE,
                                              !.FootnoteRef = marker.Marker,
                                              !.Annotation.Code = TRUE] >>
                      \o Tail(s2.before)
                 ELSE s2.before
         IN  SplitMarkersLoop_MarksAsCode(s1.before \o markerPart \o s2.after,
                                          Tail(locationMarkers))

RECURSIVE SplitMarkersLoop_DropsRestOfMarker(_, _)
SplitMarkersLoop_DropsRestOfMarker(result, locationMarkers) ==
    IF locationMarkers = << >>
    THEN result
    ELSE LET marker == Head(locationMarkers)
             s1 == splitRichTextsAtCharPosition(result, marker.CharStart)
             s2 == splitRichTextsAtCharPosition(s1.after, Len(marker.FullMarker))
             markerPart ==
                 IF Len(s2.before) > 0
                 THEN << [s2.before[1] EXCEPT !.IsFootnoteMarker = TRUE,
                                              !.FootnoteRef = marker.Marker] >>
                 ELSE s2.before
         IN  SplitMarkersLoop_DropsRestOfMarker(s1.before \o markerPart \o s2.after,
                                                Tail(locationMarkers))

\* for (const marker of locationMarkers), later markers first
RECURSIVE SplitMarkersLoop(_, _)
SplitMarkersLoop(result, locationMarkers) ==
    IF locationMarkers = << >>
    THEN result
    ELSE LET marker == Head(locationMarkers)
             s1 == splitRichTextsAtCharPosition(result, marker.CharStart)
             s2 == splitRichTextsAtCharPosition(s1.after, Len(marker.FullMarker))
             markerPart ==
                 IF Len(s2.before) > 0
                 THEN << [s2.before[1] EXCEPT !.IsFootnoteMarker = TRUE,
                                              !.FootnoteRef = marker.Marker] >>
                      \o Tail(s2.before)
                 ELSE s2.before
         IN  SplitMarkersLoop(s1.before \o markerPart \o s2.after,
                              Tail(locationMarkers))

splitRichTextWithMarkers(location, markers) ==
    LET OfLocation(m) == m.BlockProperty = location.property
        locationMarkers == SortByCharStartDesc(SelectSeq(markers, OfLocation))
    IN  IF Len(locationMarkers) = 0
        THEN location.richTexts
        ELSE SplitMarkersLoop(location.richTexts, locationMarkers)

----------------------------------------------------------------------------
(* extractRichTextRange.                                                   *)

RECURSIVE RangeLoop(_, _, _, _, _)
RangeLoop(rts, startChar, endChar, i, currentPos) ==
    IF i > Len(rts)
    THEN << >>
    ELSE LET richText == rts[i]
             length == Len(richText.PlainText)
             rtStart == currentPos
             rtEnd == currentPos + length
             sliceStart == Max(0, startChar - rtStart)
             sliceEnd == Min(length, endChar - rtStart)
             slicedText == substring(richText.PlainText, sliceStart, sliceEnd)
         IN  (IF rtEnd > startChar /\ rtStart < endChar /\ Len(slicedText) > 0
              THEN << WithPlainText(cloneRichText(richText), slicedText) >>
              ELSE << >>)
             \o RangeLoop(rts, startChar, endChar, i + 1, rtEnd)

TrimStartSpan_TrimsBothEnds(rt) ==
    [rt EXCEPT !.PlainText = trim(rt.PlainText),
               !.Text = IF rt.Text.present
                        THEN [rt.Text EXCEPT !.Content = trim(rt.Text.Content)]
                        ELSE rt.Text]

\* first.PlainText and first.Text.Content are each trimmed at the start
TrimStartSpan(rt) ==
    [rt EXCEPT !.PlainText = trimStart(rt.PlainText),
               !.Text = IF rt.Text.present
                        THEN [rt.Text EXCEPT !.Content = trimStart(rt.Text.Content)]
                        ELSE rt.Text]

TrimEndSpan(rt) ==
    [rt EXCEPT !.PlainText = trimEnd(rt.PlainText),
               !.Text = IF rt.Text.present
                        THEN [rt.Text EXCEPT !.Content = trimEnd(rt.Text.Content)]
                        ELSE rt.Text]

extractRichTextRange(rts, startChar, endChar) ==
    LET result == RangeLoop(rts, startChar, endChar, 1, 0)
        n == Len(result)
        afterFirst == IF n > 0
                      THEN [result EXCEPT ![1] = TrimStartSpan(result[1])]
                      ELSE result
    IN  IF n > 0
        THEN [afterFirst EXCEPT ![n] = TrimEndSpan(afterFirst[n])]
        ELSE result

----------------------------------------------------------------------------
(* End-of-block extraction.                                                *)

\* fullText.match(/\n\n\[\^/): the offset of the first match, or -1
RECURSIVE FirstDefIndex(_, _)
FirstDefIndex(s, i) ==
    IF i >= Len(s)
    THEN -1
    ELSE IF MatchLit(s, i, <<"\n", "\n", "[", "^">>)
    THEN i
    ELSE FirstDefIndex(s, i + 1)

\* the pattern \n\n\[\^<prefix>([a-zA-Z0-9_]+)\]:\s* tried at offset i: the
\* offset after the match, or -1
DefMatchEnd(s, i, prefix) ==
    LET lit == <<"\n", "\n", "[", "^">> \o prefix
        p == i + Len(lit)
        e == RunEnd(s, p, KeyChars)
    IN  IF /\ MatchLit(s, i, lit)
           /\ e > p
           /\ MatchLit(s, e, <<"]", ":">>)
        THEN RunEnd(s, e + 2, SpaceChars)
        ELSE -1

\* every definition start: pattern.exec in a loop from lastIndex = from
RECURSIVE DefMatches(_, _, _)
DefMatches(s, from, prefix) ==
    IF from >= Len(s)
    THEN << >>
    ELSE LET e == DefMatchEnd(s, from, prefix)
         IN  IF e >= 0
             THEN << [marker |-> substring(s, from + 4 + Len(prefix),
                                           RunEnd(s, from + 4 + Len(prefix), KeyChars)),
                      start |-> e,
                      matchIndex |-> from] >>
                  \o DefMatches(s, e, prefix)
             ELSE DefMatches(s, from + 1, prefix)

\* a Map, in insertion order: set() of a present key keeps its place
MapHas(map, key) ==
    \E i \in 1..Len(map) : map[i].key = key

MapSet(map, key, value) ==
    IF MapHas(map, key)
    THEN [i \in 1..Len(map) |->
             IF map[i].key = key THEN [key |-> key, value |-> value] ELSE map[i]]
    ELSE Append(map, [key |-> key, value |-> value])

\* end of the i-th definition: where the next one starts, or the end of text
DefEnd(matches, i, definitionsText) ==
    IF i < Len(matches) THEN matches[i + 1].matchIndex ELSE Len(definitionsText)

RECURSIVE DefinitionsLoop(_, _, _, _, _)
DefinitionsLoop(definitionsRichTexts, definitionsText, matches, i, definitions) ==
    IF i > Len(matches)
    THEN definitions
    ELSE LET contentRichTexts ==
                 extractRichTextRange(definitionsRichTexts, matches[i].start,
                                      DefEnd(matches, i, definitionsText))
         IN  IF \/ Len(contentRichTexts) = 0
                \/ trim(joinPlainText(contentRichTexts)) = << >>
             THEN DefinitionsLoop(definitionsRichTexts, definitionsText, matches,
                                  i + 1, definitions)
             ELSE DefinitionsLoop(definitionsRichTexts, definitionsText, matches,
                                  i + 1,
                                  MapSet(definitions, matches[i].marker, contentRichTexts))

parseFootnoteDefinitionsFromRichText(definitionsRichTexts, markerPrefix, definitionsText) ==
    DefinitionsLoop(definitionsRichTexts, definitionsText,
                    DefMatches(definitionsText, 0, markerPrefix), 1, << >>)

extractFootnoteDefinitionsFromRichText(rts, markerPrefix, cachedFullText) ==
    LET fullText == IF cachedFullText # << >> THEN cachedFullText ELSE joinPlainText(rts)
        splitPoint == FirstDefIndex(fullText, 0)
        parts == splitRichTextsAtCharPosition(rts, splitPoint)
    IN  IF splitPoint < 0
        THEN [cleanedRichTexts |-> rts, footnoteDefinitions |-> << >>]
        ELSE [cleanedRichTexts |-> parts.before,
              footnoteDefinitions |->
                  parseFootnoteDefinitionsFromRichText(
                      parts.after, markerPrefix, substringFrom(fullText, splitPoint))]

NoFootnotes ==
    [footnotes |-> << >>, hasProcessedRichTexts |-> FALSE, hasProcessedChildren |-> FALSE]

\* location.property.includes("Caption") ? "caption" : includes("Table") ? "table" : "content"
SourceLocationOf(property) ==
    IF property.path = "NImage.Caption"
    THEN "caption"
    ELSE IF property.path = "Table.Rows[].Cells[]"
    THEN "table"
    ELSE "content"

MkFootnote(marker, markerPrefix, type, rts, blocks, sourceLocation) ==
    [Marker |-> marker,
     FullMarker |-> <<"[", "^">> \o markerPrefix \o marker \o <<"]">>,
     Content |-> [Type |-> type, RichTexts |-> rts, Blocks |-> blocks,
                  CommentAttachments |-> << >>],
     SourceLocation |-> sourceLocation]

\* every definition becomes a footnote, referenced or not
RECURSIVE FootnotesOfDefinitions_KeepsOrphans(_, _, _, _)
FootnotesOfDefinitions_KeepsOrphans(definitions, markers, markerPrefix, property) ==
    IF definitions = << >>
    THEN << >>
    ELSE << MkFootnote(Head(definitions).key, markerPrefix, "rich_text",
                       Head(definitions).value, << >>, SourceLocationOf(property)) >>
         \o FootnotesOfDefinitions_KeepsOrphans(Tail(definitions), markers,
                                                markerPrefix, property)

\* the footnotes of one location's definitions whose key has an inline marker
RECURSIVE FootnotesOfDefinitions(_, _, _, _)
FootnotesOfDefinitions(definitions, markers, markerPrefix, property) ==
    IF definitions = << >>
    THEN << >>
    ELSE LET d == Head(definitions)
             hasMarker == \E i \in 1..Len(markers) : markers[i].Marker = d.key
         IN  (IF hasMarker
              THEN << MkFootnote(d.key, markerPrefix, "rich_text", d.value, << >>,
                                 SourceLocationOf(property)) >>
              ELSE << >>)
             \o FootnotesOfDefinitions(Tail(definitions), markers, markerPrefix, property)

\* locations.forEach of extractEndOfBlockFootnotes: the block and the
\* footnotes after the locations from the i-th on are processed
RECURSIVE EobLocationsLoop(_, _, _, _, _, _)
EobLocationsLoop(block, locations, markers, markerPrefix, i, footnotes) ==
    IF i > Len(locations)
    THEN [block |-> block, footnotes |-> footnotes]
    ELSE LET location == locations[i]
             cachedText == joinPlainText(location.richTexts)
             ex == extractFootnoteDefinitionsFromRichText(location.richTexts,
                                                          markerPrefix, cachedText)
             splitRichTexts ==
                 splitRichTextWithMarkers(
                     [location EXCEPT !.richTexts = ex.cleanedRichTexts], markers)
         IN  EobLocationsLoop(Setter(block, location, splitRichTexts),
                              locations, markers, markerPrefix, i + 1,
                              footnotes \o
                                  FootnotesOfDefinitions(ex.footnoteDefinitions, markers,
                                                         markerPrefix, location.property))

extractEndOfBlockFootnotes_NoEarlyReturn(block, markerPrefix) ==
    LET locations == getAllRichTextLocations(block)
        markers == findAllFootnoteMarkers(locations, markerPrefix)
        done == EobLocationsLoop(block, locations, markers, markerPrefix, 1, << >>)
    IN  [block |-> done.block,
         result |-> [footnotes |-> done.footnotes,
                     hasProcessedRichTexts |-> TRUE,
                     hasProcessedChildren |-> FALSE]]

\* the block as left by the call, and the call's result
extractEndOfBlockFootnotes(block, markerPrefix) ==
    LET locations == getAllRichTextLocations(block)
        markers == findAllFootnoteMarkers(locations, markerPrefix)
        done == EobLocationsLoop(block, locations, markers, markerPrefix, 1, << >>)
    IN  IF Len(markers) = 0
        THEN [block |-> block, result |-> NoFootnotes]
        ELSE [block |-> done.block,
              result |-> [footnotes |-> done.footnotes,
                          hasProcessedRichTexts |-> TRUE,
                          hasProcessedChildren |-> FALSE]]

----------------------------------------------------------------------------
(* Start-of-child-blocks extraction.                                       *)

\* the pattern ^\[\^<prefix>(\w+)\]:\s* (flags g and m) tried at offset i:
\* the offset after the match, or -1.  ^ matches at the start of the text
\* and after a line terminator
ContentMatchEnd(s, i, prefix) ==
    LET lit == <<"[", "^">> \o prefix
        p == i + Len(lit)
        e == RunEnd(s, p, KeyChars)
    IN  IF /\ (i = 0 \/ s[i] \in LineTerminators)
           /\ MatchLit(s, i, lit)
           /\ e > p
           /\ MatchLit(s, e, <<"]", ":">>)
        THEN RunEnd(s, e + 2, SpaceChars)
        ELSE -1

\* contentPattern.exec(s) with the pattern's lastIndex: the first match at or
\* after lastIndex, and the lastIndex the call leaves (0 when nothing matched)
RECURSIVE ContentExecFrom(_, _, _)
ContentExecFrom(s, i, prefix) ==
    IF i > Len(s)
    THEN [found |-> FALSE, index |-> 0, length |-> 0, key |-> << >>, lastIndex |-> 0]
    ELSE LET e == ContentMatchEnd(s, i, prefix)
         IN  IF e >= 0
             THEN [found |-> TRUE, index |-> i, length |-> e - i,
                   key |-> substring(s, i + 2 + Len(prefix),
                                     RunEnd(s, i + 2 + Len(prefix), KeyChars)),
                   lastIndex |-> e]
             ELSE ContentExecFrom(s, i + 1, prefix)

ContentExec(s, lastIndex, prefix) ==
    ContentExecFrom(s, lastIndex, prefix)

\* getChildrenFromBlock: the Children of the block, null when undefined
getChildrenFromBlock(block) ==
    [isNull |-> ~block.HasChildren,
     children |-> IF block.HasChildren THEN block.Children ELSE << >>]

setChildrenInBlock(block, children) ==
    [block EXCEPT !.HasChildren = TRUE, !.Children = children]

RECURSIVE RemovePrefixLoop(_, _, _)
RemovePrefixLoop(result, i, remaining) ==
    IF ~(i <= Len(result) /\ remaining > 0)
    THEN result
    ELSE LET richText == result[i]
             length == Len(richText.PlainText)
             truncated == cloneRichText(richText)
         IN  IF length <= remaining
             THEN RemovePrefixLoop(
                      [j \in 1..(Len(result) - 1) |->
                          IF j < i THEN result[j] ELSE result[j + 1]],
                      i, remaining - length)
             ELSE RemovePrefixLoop(
                      [result EXCEPT ![i] =
                          [truncated EXCEPT
                              !.Text = IF truncated.Text.present
                                       THEN [truncated.Text EXCEPT
                                               !.Content = substringFrom(
                                                   truncated.Text.Content, remaining)]
                                       ELSE truncated.Text,
                              !.PlainText = substringFrom(truncated.PlainText, remaining)]],
                      i + 1, 0)

\* variant: the span the prefix ends in is removed whole, not truncated
RECURSIVE RemoveWholeSpans(_, _)
RemoveWholeSpans(rts, remaining) ==
    IF rts = << >> \/ remaining <= 0
    THEN rts
    ELSE RemoveWholeSpans(Tail(rts), remaining - Len(Head(rts).PlainText))

removeMarkerPrefix_RemovesWholeSpans(rts, prefixLength) ==
    IF Len(rts) = 0 \/ prefixLength = 0
    THEN rts
    ELSE RemoveWholeSpans(rts, prefixLength)

removeMarkerPrefix(rts, prefixLength) ==
    IF Len(rts) = 0 \/ prefixLength = 0
    THEN rts
    ELSE RemovePrefixLoop(rts, 1, prefixLength)

\* the children examined: children.slice(0, Math.max(markerCount, children.length))
ChildrenToCheck(children, markerCount) ==
    SubSeq(children, 1, Min(Len(children), Max(markerCount, Len(children))))

\* childrenToCheck.forEach: children holds the child blocks (a consumed child
\* is mutated in place, its prefix removed); the loop has reached child i
RECURSIVE ScbChildrenLoop(_, _, _, _, _, _)
ScbChildrenLoop(children, toCheck, markerPrefix, i, footnotes, remainingChildren) ==
    IF i > toCheck
    THEN [children |-> children, footnotes |-> footnotes,
          remainingChildren |-> remainingChildren]
    ELSE LET child == children[i]
             blockLocations == getAllRichTextLocations(child)
             blockText == joinPlainText(blockLocations[1].richTexts)
             match == ContentExec(blockText, 0, markerPrefix)
             cleaned == Setter(child, blockLocations[1],
                               removeMarkerPrefix(blockLocations[1].richTexts, match.length))
         IN  IF Len(blockLocations) = 0
             THEN ScbChildrenLoop(children, toCheck, markerPrefix, i + 1, footnotes,
                                  Append(remainingChildren, child))
             ELSE IF ~match.found
             THEN ScbChildrenLoop(children, toCheck, markerPrefix, i + 1, footnotes,
                                  Append(remainingChildren, child))
             ELSE ScbChildrenLoop([children EXCEPT ![i] = cleaned], toCheck,
                                  markerPrefix, i + 1,
                                  Append(footnotes,
                                         MkFootnote(match.key, markerPrefix, "blocks",
                                                    << >>, << cleaned >>, "content")),
                                  remainingChildren)

\* locations.forEach(location => location.setter(splitRichTextWithMarkers(...)))
RECURSIVE SplitMarkersInLocations(_, _, _, _)
SplitMarkersInLocations(block, locations, markers, i) ==
    IF i > Len(locations)
    THEN block
    ELSE SplitMarkersInLocations(
             Setter(block, locations[i], splitRichTextWithMarkers(locations[i], markers)),
             locations, markers, i + 1)

extractStartOfChildBlocksFootnotes(block, markerPrefix) ==
    LET locations == getAllRichTextLocations(block)
        markers == findAllFootnoteMarkers(locations, markerPrefix)
        markerCount == Len(markers)
        got == getChildrenFromBlock(block)
        children == got.children
        childrenToCheck == IF got.isNull THEN << >>
                           ELSE ChildrenToCheck(children, markerCount)
        scanned == ScbChildrenLoop(children, Len(childrenToCheck), markerPrefix, 1,
                                   << >>, << >>)
        remainingChildren ==
            IF ~got.isNull /\ Len(children) > markerCount
            THEN scanned.remainingChildren
                 \o SubSeq(scanned.children, markerCount + 1, Len(children))
            ELSE scanned.remainingChildren
    IN  IF markerCount = 0
        THEN [block |-> block, result |-> NoFootnotes]
        ELSE [block |-> SplitMarkersInLocations(
                            setChildrenInBlock(block, remainingChildren),
                            locations, markers, 1),
              result |-> [footnotes |-> scanned.footnotes,
                          hasProcessedRichTexts |-> TRUE,
                          hasProcessedChildren |-> TRUE]]

----------------------------------------------------------------------------
(* Block-comments extraction.                                              *)

\* a rich_text item of the comments API, type "text"
NotionRichText(plain, bold, code) ==
    [type |-> "text", plain_text |-> plain,
     text |-> [content |-> plain, link |-> ""],
     annotations |-> [bold |-> bold, italic |-> FALSE, strikethrough |-> FALSE,
                      underline |-> FALSE, code |-> code, color |-> "default"]]

ConvertOne(nrt) ==
    MkRichText(nrt.plain_text,
               IF nrt.type = "text"
               THEN [present |-> TRUE, Content |-> nrt.text.content, Link |-> nrt.text.link]
               ELSE NoText,
               [Bold |-> nrt.annotations.bold,
                Italic |-> nrt.annotations.italic,
                Strikethrough |-> nrt.annotations.strikethrough,
                Underline |-> nrt.annotations.underline,
                Code |-> nrt.annotations.code,
                Color |-> nrt.annotations.color],
               "", "")

convertNotionRichTextToOurFormat(notionRichTexts) ==
    [i \in 1..Len(notionRichTexts) |-> ConvertOne(notionRichTexts[i])]

\* the attachments of a comment that carry a file url, as CommentAttachment
\* records (Category, Url, ExpiryTime)
RECURSIVE AttachmentsOf(_)
AttachmentsOf(attachments) ==
    IF attachments = << >>
    THEN << >>
    ELSE LET attachment == Head(attachments)
         IN  IF attachment.file.url # ""
             THEN << [Category |-> attachment.category,
                      Url |-> attachment.file.url,
                      ExpiryTime |-> attachment.file.expiry_time] >>
                  \o AttachmentsOf(Tail(attachments))
             ELSE AttachmentsOf(Tail(attachments))

\* one pass of the body of "for (const comment of comments)", every download
\* succeeding: the footnotes and the pattern's lastIndex after it
ProcessComment(comment, fns, li, markerPrefix) ==
    LET richTextArray == comment.rich_text
        firstText == richTextArray[1].plain_text
        match == ContentExec(firstText, li, markerPrefix)
        contentRichTexts == convertNotionRichTextToOurFormat(richTextArray)
        cleanedRichTexts == removeMarkerPrefix(contentRichTexts, match.length)
        footnote == MkFootnote(match.key, markerPrefix, "comment",
                               cleanedRichTexts, << >>, "comment")
    IN  IF Len(richTextArray) = 0
        THEN [footnotes |-> fns, lastIndex |-> li, matched |-> FALSE]
        ELSE IF ~match.found
        THEN [footnotes |-> fns, lastIndex |-> match.lastIndex, matched |-> FALSE]
        ELSE [footnotes |->
                 Append(fns,
                        [footnote EXCEPT !.Content.CommentAttachments =
                                             AttachmentsOf(comment.attachments)]),
              lastIndex |-> match.lastIndex, matched |-> TRUE]

----------------------------------------------------------------------------
(* Bibliography sources: get_bib_source_info, the cache files,             *)
(* fetchBibTeXFile and parseBibTeXFiles.                                   *)

GistUrl ==
    "https://gist.github.com/user/abc123"

DropboxUrl ==
    "https://www.dropbox.com/scl/fi/x/refs.bib?dl=0"

Urls ==
    {GistUrl, DropboxUrl}

\* get_bib_source_info on the urls above; updated_url "" stands for null
get_bib_source_info(url) ==
    CASE url = GistUrl ->
            [source |-> "github-gist",
             download_url |-> "https://gist.githubusercontent.com/user/abc123/raw",
             updated_url |-> "https://api.github.com/gists/abc123"]
      [] url = DropboxUrl ->
            [source |-> "dropbox",
             download_url |-> "https://www.dropbox.com/scl/fi/x/refs.bib?dl=1",
             updated_url |-> ""]
      [] OTHER ->
            [source |-> "unknown", download_url |-> url, updated_url |-> ""]

\* the last segment of the download url's path when it ends in .bib
OriginalName(downloadUrl) ==
    IF downloadUrl = "https://www.dropbox.com/scl/fi/x/refs.bib?dl=1"
    THEN "refs.bib"
    ELSE "unknown.bib"

\* crypto.createHash("md5").update(url).digest("hex")
UrlHash(url) ==
    <<"md5", url>>

\* join of the family names: "a", "a & b", "a, b & c", at most 8 then et al.
RECURSIVE JoinComma(_)
JoinComma(names) ==
    IF Len(names) = 0 THEN << >>
    ELSE IF Len(names) = 1 THEN << names[1] >>
    ELSE << names[1], ", " >> \o JoinComma(Tail(names))

AuthorsOf(authorList) ==
    IF Len(authorList) = 0 THEN << "Unknown" >>
    ELSE IF Len(authorList) = 1 THEN << authorList[1] >>
    ELSE IF Len(authorList) = 2 THEN << authorList[1], " & ", authorList[2] >>
    ELSE IF Len(authorList) > 8
    THEN JoinComma(SubSeq(authorList, 1, 8)) \o << ", et al." >>
    ELSE JoinComma(SubSeq(authorList, 1, Len(authorList) - 1))
         \o << " & ", authorList[Len(authorList)] >>

\* the ParsedCitationEntry of one entry of the parsed data; the two
\* bibliography strings are what the formatter makes of the entry
EntryOf(entry) ==
    [key |-> entry.id,
     authors |-> AuthorsOf(entry.author),
     year |-> IF entry.year = "" THEN "n.d." ELSE entry.year,
     ieee_formatted |-> <<"ieee", entry.title>>,
     apa_formatted |-> <<"apa", entry.title>>]

RECURSIVE ParseLoop(_, _)
ParseLoop(data, entries) ==
    IF data = << >>
    THEN entries
    ELSE LET entry == Head(data)
         IN  IF entry.id = << >>
             THEN ParseLoop(Tail(data), entries)
             ELSE ParseLoop(Tail(data), MapSet(entries, entry.id, EntryOf(entry)))

\* parseAndFormatBibTeXContent: new Cite(content) throws on text that is not
\* BibTeX, else every entry with a key becomes a map entry
parseAndFormatBibTeXContent(content) ==
    [threw |-> ~content.parseable,
     entries |-> IF content.parseable THEN ParseLoop(content.data, << >>) ELSE << >>]

NoMeta ==
    [present |-> FALSE, url |-> "", last_updated |-> "", entry_count |-> 0,
     last_fetched |-> 0, parsed_file |-> << >>]

NoParsed ==
    [present |-> FALSE, entries |-> << >>]

NoMapping ==
    [present |-> FALSE, cached_as |-> << >>, original_name |-> "",
     download_url |-> "", last_updated |-> 0]

saveParsedCitations(files, url, entries) ==
    [files EXCEPT ![url] = [present |-> TRUE, entries |-> entries]]

\* loadParsedCitations: null when parsed_<hash>.json does not exist
loadParsedCitations(files, url) ==
    [isNull |-> ~files[url].present,
     entries |-> IF files[url].present THEN files[url].entries ELSE << >>]

\* variant: the mapping is written anew, without the entries read from the file
updateBibFilesMapping_StartsEmpty(mapping, url, downloadUrl, time) ==
    [u \in DOMAIN mapping |->
        IF u = url
        THEN [present |-> TRUE,
              cached_as |-> UrlHash(url) \o << ".bib" >>,
              original_name |-> OriginalName(downloadUrl),
              download_url |-> downloadUrl,
              last_updated |-> time]
        ELSE NoMapping]

updateBibFilesMapping(mapping, url, downloadUrl, time) ==
    [mapping EXCEPT ![url] =
        [present |-> TRUE,
         cached_as |-> UrlHash(url) \o << ".bib" >>,
         original_name |-> OriginalName(downloadUrl),
         download_url |-> downloadUrl,
         last_updated |-> time]]

\* the locals of a fetchBibTeXFile call, and what it has done so far
IdleCall ==
    [pc |-> "idle", existingMeta |-> NoMeta, metaAtCall |-> NoMeta,
     remoteLastUpdated |-> "", entryCount |-> 0, result |-> "none",
     probed |-> FALSE, probeAnswered |-> FALSE, downloaded |-> FALSE,
     downloadFailed |-> FALSE]

\* fetchBibTeXFile from its first line to its first await or return
StartOfFetch(url, bibFiles, metaFiles, buildTime) ==
    LET sourceInfo == get_bib_source_info(url)
        existingMeta == IF bibFiles[url] /\ metaFiles[url].present
                        THEN metaFiles[url] ELSE NoMeta
        base == [IdleCall EXCEPT !.existingMeta = existingMeta,
                                 !.metaAtCall = metaFiles[url]]
        fetch == [base EXCEPT !.pc = "download", !.downloaded = TRUE]
    IN  IF ~existingMeta.present
        THEN fetch
        ELSE IF sourceInfo.updated_url = ""
        THEN fetch
        ELSE IF buildTime # 0 /\ existingMeta.last_fetched >= buildTime
        THEN [base EXCEPT !.pc = "done", !.result = "cached"]
        ELSE [base EXCEPT !.pc = "probe", !.probed = TRUE]

\* variant: a probe without answer counts as a change of the remote file
AfterProbe_RefetchesOnNull(c, remoteLastUpdated) ==
    LET answered == [c EXCEPT !.remoteLastUpdated = remoteLastUpdated,
                              !.probeAnswered = TRUE]
    IN  IF remoteLastUpdated # c.existingMeta.last_updated
        THEN [answered EXCEPT !.pc = "download", !.downloaded = TRUE]
        ELSE [answered EXCEPT !.pc = "done", !.result = "cached"]

\* getGitHubLastUpdated has answered remoteLastUpdated ("" for null): the
\* refetch decision and what follows it
AfterProbe(c, remoteLastUpdated) ==
    LET answered == [c EXCEPT !.remoteLastUpdated = remoteLastUpdated,
                              !.probeAnswered = TRUE]
    IN  IF /\ remoteLastUpdated # ""
           /\ c.existingMeta.last_updated # ""
           /\ remoteLastUpdated # c.existingMeta.last_updated
        THEN [answered EXCEPT !.pc = "download", !.downloaded = TRUE]
        ELSE [answered EXCEPT !.pc = "done", !.result = "cached"]

\* the BibFileMeta written after a download
MetaOf(url, remoteLastUpdated, entryCount, time) ==
    [present |-> TRUE, url |-> url, last_updated |-> remoteLastUpdated,
     entry_count |-> entryCount, last_fetched |-> time,
     parsed_file |-> << "parsed_" >> \o UrlHash(url) \o << ".json" >>]

\* the catch block of the download: the fallback, or the error thrown on
AfterDownloadFailure(c, url, files) ==
    IF c.existingMeta.present /\ ~loadParsedCitations(files, url).isNull
    THEN [c EXCEPT !.pc = "done", !.result = "cached-fallback", !.downloadFailed = TRUE]
    ELSE [c EXCEPT !.pc = "done", !.result = "threw", !.downloadFailed = TRUE]

RECURSIVE MergeEntries_KeepsEarlier(_, _)
MergeEntries_KeepsEarlier(allEntries, parsedCitations) ==
    IF parsedCitations = << >>
    THEN allEntries
    ELSE MergeEntries_KeepsEarlier(
             IF MapHas(allEntries, Head(parsedCitations).key)
             THEN allEntries
             ELSE MapSet(allEntries, Head(parsedCitations).key,
                         Head(parsedCitations).value),
             Tail(parsedCitations))

RECURSIVE MergeEntries(_, _)
MergeEntries(allEntries, parsedCitations) ==
    IF parsedCitations = << >>
    THEN allEntries
    ELSE MergeEntries(MapSet(allEntries, Head(parsedCitations).key,
                             Head(parsedCitations).value),
                      Tail(parsedCitations))

\* the locals of a parseBibTeXFiles call; results: how each fetch ended
IdleMerge ==
    [pc |-> "idle", urls |-> << >>, index |-> 0, allEntries |-> << >>,
     results |-> << >>]

NoCombined ==
    [present |-> FALSE, entries |-> << >>]

BibIdle ==
    /\ lastBuildTime = 0
    /\ now = 0
    /\ bibFile = [u \in Urls |-> FALSE]
    /\ metaFile = [u \in Urls |-> NoMeta]
    /\ parsedFile = [u \in Urls |-> NoParsed]
    /\ mappingFile = [u \in Urls |-> NoMapping]
    /\ combinedFile = NoCombined
    /\ remote = [u \in Urls |-> [content |-> [parseable |-> FALSE, data |-> << >>],
                                 updated_at |-> ""]]
    /\ call = [u \in Urls |-> IdleCall]
    /\ fetchCalls = [u \in Urls |-> 0]
    /\ merge = IdleMerge

----------------------------------------------------------------------------
(* Citations: formatCitation and extractCitationsFromBlock.                *)

MapGet(map, key) ==
    LET i == CHOOSE i \in 1..Len(map) : map[i].key = key
    IN  map[i].value

formatCitation(entry, style) ==
    [inText |-> IF style = "apa"
                THEN entry.authors \o << ", ", entry.year >>
                ELSE << "[?]" >>,
     bibliography |-> IF style = "apa" THEN entry.apa_formatted ELSE entry.ieee_formatted,
     authors |-> entry.authors,
     year |-> entry.year]

\* the literal that opens and the literal that closes a token of the format
CiteOpen(citationFormat) ==
    CASE citationFormat = "[@key]" -> <<"[", "@">>
      [] citationFormat = "\\cite{key}" -> <<"\\", "c", "i", "t", "e", "{">>
      [] citationFormat = "#cite(key)" -> <<"#", "c", "i", "t", "e", "(">>
      [] OTHER -> << >>

CiteClose(citationFormat) ==
    CASE citationFormat = "[@key]" -> <<"]">>
      [] citationFormat = "\\cite{key}" -> <<"}">>
      [] citationFormat = "#cite(key)" -> <<")">>
      [] OTHER -> << >>

KnownFormat(citationFormat) ==
    citationFormat \in {"[@key]", "\\cite{key}", "#cite(key)"}

\* the pattern of the format tried at offset i: the offset after the match,
\* or -1
CiteMatchEnd(s, i, citationFormat) ==
    LET p == i + Len(CiteOpen(citationFormat))
        e == RunEnd(s, p, CiteKeyChars)
    IN  IF /\ MatchLit(s, i, CiteOpen(citationFormat))
           /\ e > p
           /\ MatchLit(s, e, CiteClose(citationFormat))
        THEN e + Len(CiteClose(citationFormat))
        ELSE -1

\* while ((match = pattern.exec(fullText)) !== null): every match from
\* offset from on, left to right, each search starting where the last ended
RECURSIVE CiteExecAll(_, _, _)
CiteExecAll(s, from, citationFormat) ==
    IF from > Len(s)
    THEN << >>
    ELSE LET e == CiteMatchEnd(s, from, citationFormat)
             p == from + Len(CiteOpen(citationFormat))
         IN  IF e >= 0
             THEN << [key |-> substring(s, p, e - Len(CiteClose(citationFormat))),
                      start |-> from, end |-> e,
                      fullMatch |-> substring(s, from, e)] >>
                  \o CiteExecAll(s, e, citationFormat)
             ELSE CiteExecAll(s, from + 1, citationFormat)

\* the run that holds offset charStart has the Code annotation
RECURSIVE CiteInCode(_, _, _, _)
CiteInCode(rts, charStart, i, currentPos) ==
    IF i > Len(rts)
    THEN FALSE
    ELSE LET rtEnd == currentPos + Len(rts[i].PlainText)
         IN  IF charStart >= currentPos /\ charStart < rtEnd
             THEN rts[i].Annotation.Code
             ELSE CiteInCode(rts, charStart, i + 1, rtEnd)

\* the matches pushed for a location: those that do not start in a code run
CiteMatchesOf(rts, citationFormat) ==
    SelectSeq(CiteExecAll(joinPlainText(rts), 0, citationFormat),
              LAMBDA m : ~CiteInCode(rts, m.start, 1, 0))

Reverse(seq) ==
    [i \in 1..Len(seq) |-> seq[Len(seq) + 1 - i]]

CitationOf(m, entry, style) ==
    LET formatted == formatCitation(entry, style)
    IN  [Key |-> m.key,
         FormattedEntry |-> formatted.bibliography,
         Authors |-> formatted.authors,
         Year |-> formatted.year,
         SourceBlockIds |-> << >>]

MarkerText(m) ==
    [MkRichText(m.fullMatch,
                [present |-> TRUE, Content |-> m.fullMatch, Link |-> ""],
                DefaultAnnotation, "", "")
        EXCEPT !.IsCitationMarker = TRUE, !.CitationRef = m.key]

\* an unresolved key ends the replacement of the location
RECURSIVE ReplaceLoop_StopsAtUnresolved(_, _, _, _, _, _)
ReplaceLoop_StopsAtUnresolved(matches, i, entries, style, newRichTexts, citations) ==
    IF i > Len(matches)
    THEN [richTexts |-> newRichTexts, citations |-> citations]
    ELSE LET m == matches[i]
             first == citSplitRichTextsAtCharPosition(newRichTexts, m.start)
             second == citSplitRichTextsAtCharPosition(first.after, m.end - m.start)
         IN  IF ~MapHas(entries, m.key)
             THEN [richTexts |-> newRichTexts, citations |-> citations]
             ELSE ReplaceLoop_StopsAtUnresolved(matches, i + 1, entries, style,
                      first.before \o << MarkerText(m) >> \o second.after,
                      Append(citations, CitationOf(m, MapGet(entries, m.key), style)))

\* for (const m of matches), matches being in reverse text order
\* variant: the record of a token is put before the records made so far
RECURSIVE ReplaceLoop_PrependsRecord(_, _, _, _, _, _)
ReplaceLoop_PrependsRecord(matches, i, entries, style, newRichTexts, citations) ==
    IF i > Len(matches)
    THEN [richTexts |-> newRichTexts, citations |-> citations]
    ELSE LET m == matches[i]
             first == citSplitRichTextsAtCharPosition(newRichTexts, m.start)
             second == citSplitRichTextsAtCharPosition(first.after, m.end - m.start)
         IN  IF ~MapHas(entries, m.key)
             THEN ReplaceLoop_PrependsRecord(matches, i + 1, entries, style,
                                             newRichTexts, citations)
             ELSE ReplaceLoop_PrependsRecord(matches, i + 1, entries, style,
                      first.before \o << MarkerText(m) >> \o second.after,
                      << CitationOf(m, MapGet(entries, m.key), style) >> \o citations)

RECURSIVE ReplaceLoop(_, _, _, _, _, _)
ReplaceLoop(matches, i, entries, style, newRichTexts, citations) ==
    IF i > Len(matches)
    THEN [richTexts |-> newRichTexts, citations |-> citations]
    ELSE LET m == matches[i]
             first == citSplitRichTextsAtCharPosition(newRichTexts, m.start)
             second == citSplitRichTextsAtCharPosition(first.after, m.end - m.start)
         IN  IF ~MapHas(entries, m.key)
             THEN ReplaceLoop(matches, i + 1, entries, style, newRichTexts, citations)
             ELSE ReplaceLoop(matches, i + 1, entries, style,
                      first.before \o << MarkerText(m) >> \o second.after,
                      Append(citations, CitationOf(m, MapGet(entries, m.key), style)))

\* for (const location of locations)
RECURSIVE CiteLocationsLoop(_, _, _, _, _, _, _, _)
CiteLocationsLoop(block, locations, i, citationFormat, style, entries, citations, processedAny) ==
    IF i > Len(locations)
    THEN [block |-> block,
          result |-> [citations |-> citations, processedRichTexts |-> processedAny]]
    ELSE LET location == locations[i]
             matches == CiteMatchesOf(location.richTexts, citationFormat)
             replaced == ReplaceLoop(Reverse(matches), 1, entries, style,
                                     location.richTexts, citations)
         IN  IF Len(matches) = 0
             THEN CiteLocationsLoop(block, locations, i + 1, citationFormat, style,
                                    entries, citations, processedAny)
             ELSE CiteLocationsLoop(Setter(block, location, replaced.richTexts),
                                    locations, i + 1, citationFormat, style,
                                    entries, replaced.citations, TRUE)

NoCitations ==
    [citations |-> << >>, processedRichTexts |-> FALSE]

\* config: [format, ieee], ieee being bibliography-format["simplified-ieee"]
extractCitationsFromBlock(block, cfg, entries) ==
    LET locations == getAllRichTextLocations(block)
        bibliographyStyle == IF cfg.ieee THEN "simplified-ieee" ELSE "apa"
    IN  IF Len(locations) = 0
        THEN [block |-> block, result |-> NoCitations]
        ELSE IF ~KnownFormat(cfg.format)
        THEN [block |-> block, result |-> NoCitations]
        ELSE CiteLocationsLoop(block, locations, 1, cfg.format, bibliographyStyle,
                               entries, << >>, FALSE)

----------------------------------------------------------------------------
(* prepareBibliography.                                                    *)

\* a Citation as prepareBibliography reads it: Index is optional
MkCitation(key, authors, index) ==
    [Key |-> key, Authors |-> authors, Index |-> index]

NoIndex ==
    [defined |-> FALSE, value |-> 0]

IndexOf(n) ==
    [defined |-> TRUE, value |-> n]

\* a.Index || 0
IndexOrZero(a) ==
    IF a.Index.defined /\ a.Index.value # 0 THEN a.Index.value ELSE 0

\* the letters the collation is modelled for, in collation order: letters
\* that differ in case only have the same primary weight, and the
\* lower-case letter comes first at the case level
CollationOrder ==
    <<"a", "A", "b", "B">>

CollationIndex(c) ==
    CHOOSE i \in 1..Len(CollationOrder) : CollationOrder[i] = c

PrimaryWeights(str) ==
    [i \in 1..Len(str) |-> (CollationIndex(str[i]) + 1) \div 2]

CaseWeights(str) ==
    [i \in 1..Len(str) |-> (CollationIndex(str[i]) + 1) % 2]

\* weights compared from the left; a proper prefix comes first
RECURSIVE CompareWeights(_, _)
CompareWeights(x, y) ==
    IF x = << >> /\ y = << >> THEN 0
    ELSE IF x = << >> THEN -1
    ELSE IF y = << >> THEN 1
    ELSE IF Head(x) < Head(y) THEN -1
    ELSE IF Head(x) > Head(y) THEN 1
    ELSE CompareWeights(Tail(x), Tail(y))

\* String.prototype.localeCompare: by primary weights, then by case
localeCompare(a, b) ==
    IF PrimaryWeights(a) # PrimaryWeights(b)
    THEN CompareWeights(PrimaryWeights(a), PrimaryWeights(b))
    ELSE CompareWeights(CaseWeights(a), CaseWeights(b))

\* the comparator handed to sort under each style
CompareCitations(style, a, b) ==
    IF style = "simplified-ieee"
    THEN IndexOrZero(a) - IndexOrZero(b)
    ELSE localeCompare(a.Authors, b.Authors)

\* x put before the first element that compares greater than x
RECURSIVE InsertSorted(_, _, _)
InsertSorted(acc, x, style) ==
    IF acc = << >>
    THEN << x >>
    ELSE IF CompareCitations(style, Head(acc), x) > 0
    THEN << x >> \o acc
    ELSE << Head(acc) >> \o InsertSorted(Tail(acc), x, style)

RECURSIVE ArraySort_TiesReversed(_, _, _)
ArraySort_TiesReversed(list, style, acc) ==
    IF list = << >>
    THEN acc
    ELSE ArraySort_TiesReversed(
             Tail(list), style,
             LET before == SelectSeq(acc, LAMBDA e : CompareCitations(style, e, Head(list)) < 0)
                 others == SelectSeq(acc, LAMBDA e : CompareCitations(style, e, Head(list)) >= 0)
             IN  before \o << Head(list) >> \o others)

\* Array.prototype.sort with a comparator: a stable sort
RECURSIVE ArraySort(_, _, _)
ArraySort(list, style, acc) ==
    IF list = << >>
    THEN acc
    ELSE ArraySort(Tail(list), style, InsertSorted(acc, Head(list), style))

prepareBibliography(citations, style) ==
    ArraySort(citations, style, << >>)

PrepIdle ==
    /\ prepCitations = << >>
    /\ prepStyle = ""
    /\ sorted = << >>
    /\ prepStage = "idle"

CitIdle ==
    /\ PrepIdle
    /\ citConfig = [format |-> "", ieee |-> FALSE]
    /\ bibEntries = << >>
    /\ citInput = MkBlock("none", "Paragraph", << << >> >>, FALSE, << >>)
    /\ citBlock = citInput
    /\ citResult = NoCitations
    /\ citStage = "idle"

\* getActiveSource: the first source enabled, in this order
getActiveSource(source) ==
    IF source["end-of-block"] THEN "end-of-block"
    ELSE IF source["start-of-child-blocks"] THEN "start-of-child-blocks"
    ELSE IF source["block-comments"] THEN "block-comments"
    ELSE "null"

----------------------------------------------------------------------------
(* Inputs: span sequences.                                                 *)

Alphabet ==
    <<"a","b","c","d","e","f","g","h","i","j","k","l","m",
      "n","o","p","q","r","s","t","u","v","w","x","y","z">>

\* the characters at offsets from..from+n-1 of abcdef...: every character of
\* a joined text is then different from its neighbours
Slice(from, n) ==
    [j \in 1..n |-> Alphabet[((from + j - 1) % Len(Alphabet)) + 1]]

SpanStyles ==
    {"plain", "link", "mention", "equation"}

\* a span of the given style: plain, bold, code and link spans are text
\* runs, a link has a Link and other annotations; a mention and an equation
\* have PlainText and no Text
StyledSpan(plain, style) ==
    IF style = "mention"
    THEN MkRichText(plain, NoText, DefaultAnnotation, "", "page")
    ELSE IF style = "equation"
    THEN MkRichText(plain, NoText, DefaultAnnotation, "e", "")
    ELSE IF style = "link"
    THEN MkRichText(plain,
                    [present |-> TRUE, Content |-> plain, Link |-> "u"],
                    [Bold |-> FALSE, Italic |-> TRUE, Strikethrough |-> TRUE,
                     Underline |-> TRUE, Code |-> TRUE, Color |-> "red"],
                    "", "")
    ELSE MkRichText(plain,
                    [present |-> TRUE, Content |-> plain, Link |-> ""],
                    [DefaultAnnotation EXCEPT !.Code = (style = "code"),
                                              !.Bold = (style = "bold")],
                    "", "")

RECURSIVE SumTo(_, _)
SumTo(lens, n) ==
    IF n = 0 THEN 0 ELSE lens[n] + SumTo(lens, n - 1)

\* spans of the given lengths and styles cut out of abcdef...
SlicedSpans(lens, styles) ==
    [i \in 1..Len(lens) |-> StyledSpan(Slice(SumTo(lens, i - 1), lens[i]), styles[i])]

SeqsUpTo(S, n) ==
    UNION {[1..m -> S] : m \in 0..n}

SplitInputs ==
    {SlicedSpans(lens, styles) :
        <<lens, styles>> \in
            {p \in SeqsUpTo(0..MaxSpanLen, MaxSpans) \X SeqsUpTo(SpanStyles, MaxSpans) :
                Len(p[1]) = Len(p[2])}}

----------------------------------------------------------------------------
(* Specification SpecSplit: the split applied to every input.              *)

NoSplit ==
    [done |-> FALSE, before |-> << >>, after |-> << >>]

NoRange ==
    [done |-> FALSE, richTexts |-> << >>]

SplitIdle ==
    /\ richTexts = << >>
    /\ splitCharPos = 0
    /\ splitFn = NoSplit
    /\ splitCit = NoSplit
    /\ rangeResult = NoRange
    /\ prefixResult = NoRange

NoConfig ==
    [s \in {"end-of-block", "start-of-child-blocks", "block-comments"} |-> FALSE]

EmptyBlock ==
    MkBlock("none", "Paragraph", << << >> >>, FALSE, << >>)

FnIdle ==
    /\ config = NoConfig
    /\ fnInput = EmptyBlock
    /\ fnBlock = EmptyBlock
    /\ fnResult = NoFootnotes
    /\ fnStage = "idle"

BcIdle ==
    /\ notionClient = FALSE
    /\ response = << >>
    /\ commentIndex = 0
    /\ patternLastIndex = 0
    /\ bcFootnotes = << >>
    /\ listCalls = 0
    /\ logged = "none"

SplitInit ==
    /\ CitIdle
    /\ BibIdle
    /\ BcIdle
    /\ richTexts \in SplitInputs
    /\ splitCharPos \in 0..Len(joinPlainText(richTexts))
    /\ splitFn = NoSplit
    /\ splitCit = NoSplit
    /\ rangeResult = NoRange
    /\ prefixResult = NoRange
    /\ FnIdle

SplitFootnotes ==
    /\ ~splitFn.done
    /\ splitFn' = [done |-> TRUE,
                   before |-> splitRichTextsAtCharPosition(richTexts, splitCharPos).before,
                   after |-> splitRichTextsAtCharPosition(richTexts, splitCharPos).after]
    /\ UNCHANGED <<richTexts, splitCharPos, splitCit, rangeResult, prefixResult, fnVars, bcVars, bibVars, citVars>>

SplitCitations ==
    /\ ~splitCit.done
    /\ splitCit' = [done |-> TRUE,
                    before |-> citSplitRichTextsAtCharPosition(richTexts, splitCharPos).before,
                    after |-> citSplitRichTextsAtCharPosition(richTexts, splitCharPos).after]
    /\ UNCHANGED <<richTexts, splitCharPos, splitFn, rangeResult, prefixResult, fnVars, bcVars, bibVars, citVars>>

SplitNext ==
    \/ SplitFootnotes
    \/ SplitCitations

SpecSplit ==
    SplitInit /\ [][SplitNext]_vars

----------------------------------------------------------------------------
(* C1: for every span sequence S and every cut 0 <= k <= len(join(S)), the *)
(* two halves returned by splitRichTextsAtCharPosition join back to        *)
(* join(S), before first, in the footnotes copy and in the citations copy, *)
(* zero-length spans included.                                             *)

C1_SplitPreservesJoin ==
    /\ splitFn.done =>
          joinPlainText(splitFn.before) \o joinPlainText(splitFn.after)
              = joinPlainText(richTexts)
    /\ splitCit.done =>
          joinPlainText(splitCit.before) \o joinPlainText(splitCit.after)
              = joinPlainText(richTexts)

\* both copies have run on three spans, one of them empty, with the cut
\* strictly inside a span
C1_Witness ==
    /\ splitFn.done
    /\ splitCit.done
    /\ Len(richTexts) = 3
    /\ \E i \in 1..Len(richTexts) : richTexts[i].PlainText = << >>
    /\ Len(splitFn.before) + Len(splitFn.after) = Len(richTexts) + 1
    /\ Len(splitCit.before) + Len(splitCit.after) = Len(richTexts) + 1

\* the offset at which span j of the input starts
StartOf(j) ==
    Len(joinPlainText(SubSeq(richTexts, 1, j - 1)))

\* the cut lies strictly inside span j of the input
Straddles(j) ==
    /\ StartOf(j) < splitCharPos
    /\ splitCharPos < StartOf(j) + Len(richTexts[j].PlainText)

\* span is one of the two parts of span j of the input, cut at the position
IsFragmentOf(span, j) ==
    LET rt == richTexts[j]
        splitOffset == splitCharPos - StartOf(j)
    IN  /\ Straddles(j)
        /\ \/ span.PlainText = substring(rt.PlainText, 0, splitOffset)
           \/ span.PlainText = substringFrom(rt.PlainText, splitOffset)
        /\ Len(span.PlainText) > 0
        /\ span.Text.present = rt.Text.present
        /\ span.Text.present => span.Text.Content = span.PlainText
        /\ span.Text.Link = rt.Text.Link
        /\ span.Annotation = rt.Annotation
        /\ span.Equation = rt.Equation
        /\ span.Mention = rt.Mention

\* the spans a split emitted
Emitted(split) ==
    split.before \o split.after

----------------------------------------------------------------------------
(* C20: every span emitted by splitRichTextsAtCharPosition is an input     *)
(* span unchanged, or a part of the input span the cut lies strictly       *)
(* inside, with that span's Annotation, link, equation and mention, and    *)
(* with PlainText, and Text.Content where the span has a Text, equal to    *)
(* the characters of the part; a part is never empty, so the input span    *)
(* that is cut gives exactly two spans and every other span one.           *)

C20_FragmentsKeepFields ==
    splitFn.done =>
        /\ \A n \in 1..Len(Emitted(splitFn)) :
              \E j \in 1..Len(richTexts) :
                  \/ Emitted(splitFn)[n] = richTexts[j] /\ ~Straddles(j)
                  \/ IsFragmentOf(Emitted(splitFn)[n], j)
        /\ Len(Emitted(splitFn)) =
              Len(richTexts) + Cardinality({j \in 1..Len(richTexts) : Straddles(j)})
        /\ \A n \in 1..Len(Emitted(splitFn)) :
              Emitted(splitFn)[n].PlainText = << >> =>
                  \E j \in 1..Len(richTexts) : richTexts[j].PlainText = << >>

\* the cut lies inside a span with a link and annotations, between a mention
\* and an equation
C20_Witness ==
    /\ splitFn.done
    /\ Len(richTexts) = 3
    /\ Straddles(2)
    /\ richTexts[2].Text.Link # ""
    /\ richTexts[2].Annotation.Code
    /\ richTexts[1].Mention # ""
    /\ richTexts[3].Equation # ""
    /\ Len(Emitted(splitFn)) = 4

----------------------------------------------------------------------------
(* Inputs: texts made of tokens, cut into spans.                           *)

TokX == <<"x">>
TokSp == <<" ">>
TokNlNl == <<"\n", "\n">>
TokColon == <<":">>
TokRefA == <<"[", "^", "f", "t", "_", "a", "]">>
TokRefB == <<"[", "^", "f", "t", "_", "b", "]">>
TokDefA == TokNlNl \o TokRefA \o TokColon
TokDefB == TokNlNl \o TokRefB \o TokColon

EobTokens ==
    {TokX, TokSp, TokNlNl, TokColon, TokRefA, TokRefB, TokDefA, TokDefB}

TokenTexts(tokens, n) ==
    {Concat(ts) : ts \in SeqsUpTo(tokens, n)}

\* the text as one plain span (cut = 0), or as a plain span followed by a
\* span of the given style that starts at offset cut
CutSpans(text, cut, style) ==
    IF text = << >>
    THEN << >>
    ELSE IF cut = 0
    THEN << StyledSpan(text, "plain") >>
    ELSE << StyledSpan(substring(text, 0, cut), "plain"),
            StyledSpan(substringFrom(text, cut), style) >>

\* every way to hand a text over as at most two spans
SpanningsOf(text) ==
    {CutSpans(text, cut, style) :
        <<cut, style>> \in (0..(Len(text) - 1)) \X {"bold", "code"}}

\* "See it here", with the reference [^ft_a] put in at offset at, followed by
\* the two definitions of the example
SeeItHere == <<"S","e","e"," ","i","t"," ","h","e","r","e">>
FirstNote == <<"f","i","r","s","t"," ","n","o","t","e">>
SecondNote == <<"s","e","c","o","n","d"," ","n","o","t","e">>

ExampleText(at) ==
    substring(SeeItHere, 0, at) \o TokRefA \o substringFrom(SeeItHere, at)
    \o TokDefA \o TokSp \o FirstNote \o TokDefB \o TokSp \o SecondNote

ExampleTexts ==
    {ExampleText(at) : at \in 0..Len(SeeItHere)}

\* a body followed by two definitions, "\n\n[^ft_<k1>]:<c1>\n\n[^ft_<k2>]:<c2>"
NoteBodies ==
    {TokRefA, TokX \o TokRefA \o TokRefB, TokRefB \o TokSp \o TokRefA \o TokX}

NoteContents ==
    {<< >>, TokSp \o TokX, TokX \o TokSp \o TokSp, TokSp \o TokX \o TokRefB \o TokSp}

DefToken(k) ==
    IF k = "a" THEN TokDefA ELSE TokDefB

NoteText(body, k1, c1, k2, c2) ==
    body \o DefToken(k1) \o c1 \o DefToken(k2) \o c2

CellTokens ==
    {TokX, TokRefA, TokDefA, TokDefB}

Paragraph(rts) ==
    MkBlock("p", "Paragraph", << rts >>, FALSE, << >>)

TableOf(cells) ==
    MkBlock("t", "Table", cells, FALSE, << >>)

\* the blocks handed to end-of-block extraction: a paragraph holding a text
\* of tokens, the example text or a body with two definitions, in every
\* spanning; a table of two cells
IsEobInput(b) ==
    \/ \E t \in TokenTexts(EobTokens, MaxTokens) :
          \E rts \in SpanningsOf(t) : b = Paragraph(rts)
    \/ \E t \in ExampleTexts :
          \E rts \in SpanningsOf(t) : b = Paragraph(rts)
    \/ \E body \in NoteBodies, k1 \in {"a", "b"}, k2 \in {"a", "b"} :
          \E c1 \in NoteContents, c2 \in NoteContents :
              \E cut \in 0..(Len(NoteText(body, k1, c1, k2, c2)) - 1) :
                  b = Paragraph(CutSpans(NoteText(body, k1, c1, k2, c2), cut, "bold"))
    \/ \E c1 \in TokenTexts(CellTokens, MaxCellTokens) :
          \E c2 \in TokenTexts(CellTokens, MaxCellTokens) :
              b = TableOf(<< CutSpans(c1, 0, "plain"), CutSpans(c2, 0, "plain") >>)

----------------------------------------------------------------------------
(* Specification SpecEob: end-of-block extraction of a block.              *)

EobConfig ==
    [NoConfig EXCEPT !["end-of-block"] = TRUE]

EobInit ==
    /\ CitIdle
    /\ BibIdle
    /\ BcIdle
    /\ SplitIdle
    /\ config = EobConfig
    /\ IsEobInput(fnInput)
    /\ fnBlock = fnInput
    /\ fnResult = NoFootnotes
    /\ fnStage = "ready"

\* extractFootnotesFromBlock, source end-of-block
EobExtract ==
    /\ fnStage = "ready"
    /\ getActiveSource(config) = "end-of-block"
    /\ LET r == extractEndOfBlockFootnotes(fnBlock, MarkerPrefix)
       IN  /\ fnBlock' = r.block
           /\ fnResult' = r.result
    /\ fnStage' = "done"
    /\ UNCHANGED <<config, fnInput, splitVars, bcVars, bibVars, citVars>>

EobNext ==
    EobExtract

SpecEob ==
    EobInit /\ [][EobNext]_vars

----------------------------------------------------------------------------
(* Reading the input and the outcome of a footnote extraction.             *)

\* the joined text of the i-th rich-text field, before and after
InputText(i) ==
    joinPlainText(fnInput.RichTexts[i])

OutputText(i) ==
    joinPlainText(fnBlock.RichTexts[i])

FnFields ==
    1..Len(fnInput.RichTexts)

\* the keys of the inline markers of the input block
InputMarkers ==
    findAllFootnoteMarkers(getAllRichTextLocations(fnInput), MarkerPrefix)

InputMarkerKeys ==
    {InputMarkers[i].Marker : i \in 1..Len(InputMarkers)}

Footnotes ==
    fnResult.footnotes

\* "[^<prefix><key>]:" stands at offset i of s
ColonMarkerAt(s, i) ==
    LET p == i + 2 + Len(MarkerPrefix)
        e == RunEnd(s, p, KeyChars)
    IN  /\ MatchLit(s, i, <<"[", "^">> \o MarkerPrefix)
        /\ e > p
        /\ MatchLit(s, e, <<"]", ":">>)

HasColonMarker(s) ==
    \E i \in 0..(Len(s) - 1) : ColonMarkerAt(s, i)

\* a blank line followed by "[^<prefix><key>]:" stands at offset i of s
DefinitionAt(s, i) ==
    /\ MatchLit(s, i, <<"\n", "\n">>)
    /\ ColonMarkerAt(s, i + 2)

DefinitionOffsets(s) ==
    {i \in 0..(Len(s) - 1) : DefinitionAt(s, i)}

DefinitionKey(s, i) ==
    substring(s, i + 4 + Len(MarkerPrefix), RunEnd(s, i + 4 + Len(MarkerPrefix), KeyChars))

\* the text of the definition at offset i: from after its colon to the next
\* definition, or to the end of the text
DefinitionTextAt(s, i) ==
    LET from == RunEnd(s, i + 4 + Len(MarkerPrefix), KeyChars) + 2
        later == {j \in DefinitionOffsets(s) : j > i}
        to == IF later = {} THEN Len(s)
              ELSE CHOOSE j \in later : \A k \in later : j <= k
    IN  substring(s, from, to)

\* the input block holds a definition for every inline marker
EveryMarkerDefined ==
    /\ InputMarkerKeys # {}
    /\ \A key \in InputMarkerKeys :
          \E f \in FnFields :
              \E i \in DefinitionOffsets(InputText(f)) :
                  DefinitionKey(InputText(f), i) = key

----------------------------------------------------------------------------
(* C8: end-of-block: a definition whose key has no inline marker in the    *)
(* block produces no footnote.  For "See it here" with one reference       *)
(* [^ft_a] in it, followed by the definitions of a ("first note") and of b *)
(* ("second note"), extraction returns exactly one footnote: key a,        *)
(* content "first note"; nothing for b.                                    *)

\* the example: its reference [^ft_a] is an inline marker of the block (it
\* does not start in a code run)
IsExampleInput ==
    /\ fnInput.Type = "Paragraph"
    /\ InputText(1) \in ExampleTexts
    /\ InputMarkerKeys = {<<"a">>}

C8_OrphanDefinitionDropped ==
    fnStage = "done" =>
        /\ \A i \in 1..Len(Footnotes) : Footnotes[i].Marker \in InputMarkerKeys
        /\ IsExampleInput =>
              /\ Len(Footnotes) = 1
              /\ Footnotes[1].Marker = <<"a">>
              /\ Footnotes[1].FullMarker = TokRefA
              /\ Footnotes[1].Content.Type = "rich_text"
              /\ joinPlainText(Footnotes[1].Content.RichTexts) = FirstNote

\* the example has been extracted, the reference standing inside "See it here"
C8_Witness ==
    /\ fnStage = "done"
    /\ IsExampleInput
    /\ InputText(1) = ExampleText(6)
    /\ Len(Footnotes) = 1
    /\ HasColonMarker(InputText(1))

----------------------------------------------------------------------------
(* C9: end-of-block round trip: when the block holds a definition for      *)
(* every inline marker, after extraction no field's written-back text      *)
(* holds a colon-suffixed marker "[^<prefix><key>]:", and the joined       *)
(* content of every footnote returned equals the text of a definition of   *)
(* its key in the input, trimmed at both ends.                             *)

C9_RoundTrip ==
    (fnStage = "done" /\ getActiveSource(config) = "end-of-block" /\ EveryMarkerDefined) =>
        /\ \A f \in FnFields : ~HasColonMarker(OutputText(f))
        /\ \A n \in 1..Len(Footnotes) :
              \E f \in FnFields :
                  \E i \in DefinitionOffsets(InputText(f)) :
                      /\ DefinitionKey(InputText(f), i) = Footnotes[n].Marker
                      /\ joinPlainText(Footnotes[n].Content.RichTexts)
                             = trim(DefinitionTextAt(InputText(f), i))

----------------------------------------------------------------------------
(* C23: end-of-block, a block with an inline marker: every field is        *)
(* written back with its original joined text up to its first definition   *)
(* (a blank line followed by "[^<prefix><key>]:"), and with its full text  *)
(* when it holds no definition; text that follows a blank line and starts  *)
(* with "[^" without being a definition stays in the main content.         *)

\* the offset where the first definition of s starts, Len(s) without one
FirstDefinitionOffset(s) ==
    IF DefinitionOffsets(s) = {}
    THEN Len(s)
    ELSE CHOOSE i \in DefinitionOffsets(s) : \A j \in DefinitionOffsets(s) : i <= j

C23_MainContentUpToFirstDefinition ==
    (fnStage = "done" /\ getActiveSource(config) = "end-of-block") =>
        \A f \in FnFields :
            OutputText(f) = substring(InputText(f), 0, FirstDefinitionOffset(InputText(f)))

----------------------------------------------------------------------------
(* C24: end-of-block: every blank line followed by "[^<prefix><key>]:"     *)
(* starts a definition of its own, whose content runs to the next such     *)
(* occurrence or to the end of the text.  A definition whose trimmed       *)
(* content is empty gives nothing and changes nothing for those after it:  *)
(* every other definition whose key has an inline marker, the last of its  *)
(* key in its field, gives a footnote with its key and its trimmed         *)
(* content, and every footnote is the trimmed content of a definition of   *)
(* its key.                                                                *)

\* the definition at offset i of s has content that is not only whitespace
HasContent(s, i) ==
    trim(DefinitionTextAt(s, i)) # << >>

\* no later definition of s has the key of the definition at offset i
LastOfItsKey(s, i) ==
    \A j \in DefinitionOffsets(s) :
        j > i => DefinitionKey(s, j) # DefinitionKey(s, i)

\* footnote n is the definition at offset i of s
IsFootnoteOf(n, s, i) ==
    /\ Footnotes[n].Marker = DefinitionKey(s, i)
    /\ trim(joinPlainText(Footnotes[n].Content.RichTexts)) = trim(DefinitionTextAt(s, i))

DefinitionsKeptApart(fields) ==
    /\ \A f \in fields :
          \A i \in DefinitionOffsets(InputText(f)) :
              (/\ HasContent(InputText(f), i)
               /\ LastOfItsKey(InputText(f), i)
               /\ DefinitionKey(InputText(f), i) \in InputMarkerKeys) =>
                  \E n \in 1..Len(Footnotes) : IsFootnoteOf(n, InputText(f), i)
    /\ \A n \in 1..Len(Footnotes) :
          \E f \in fields :
              \E i \in DefinitionOffsets(InputText(f)) :
                  HasContent(InputText(f), i) /\ IsFootnoteOf(n, InputText(f), i)

C24_EmptyDefinitionSkippedAlone ==
    (fnStage = "done" /\ getActiveSource(config) = "end-of-block") =>
        DefinitionsKeptApart(FnFields)

\* the same statement for blocks in which every definition has content
C24_WithoutEmptyDefinitions ==
    (/\ fnStage = "done"
     /\ getActiveSource(config) = "end-of-block"
     /\ \A f \in FnFields :
           \A i \in DefinitionOffsets(InputText(f)) : HasContent(InputText(f), i)) =>
        DefinitionsKeptApart(FnFields)

----------------------------------------------------------------------------
(* Specification SpecScb: start-of-child-blocks extraction of a block.     *)

TokRefC == <<"[", "^", "f", "t", "_", "c", "]">>

BodyTokens ==
    {TokX, TokRefA, TokRefB}

\* the first rich-text field of a child: a definition of a, of b, of c (a
\* key the body never references), plain text, nothing, a second line that
\* starts with a definition, a definition spread over three spans
ChildRichTexts ==
    {<< StyledSpan(TokRefA \o TokColon \o TokSp \o <<"n">>, "plain") >>,
     << StyledSpan(TokRefB \o TokColon \o TokSp \o <<"n">>, "plain") >>,
     << StyledSpan(TokRefC \o TokColon \o TokSp \o <<"n">>, "plain") >>,
     << StyledSpan(<<"p", "l", "a", "i", "n">>, "plain") >>,
     << >>,
     << StyledSpan(TokX \o <<"\n">> \o TokRefA \o TokColon \o TokSp \o <<"y">>, "plain") >>,
     << StyledSpan(<<"[", "^", "f", "t", "_">>, "plain"),
        StyledSpan(<<"a", "]", ":", " ">>, "bold"),
        StyledSpan(<<"n">>, "plain") >>}

ChildId(i) ==
    <<"c", i>>

\* the i-th child; the first child has a child block of its own
ChildBlock(i, rts) ==
    MkBlock(ChildId(i), "Paragraph", << rts >>, i = 1,
            IF i = 1
            THEN << MkBlock(<<"g", 1>>, "Paragraph",
                            << << StyledSpan(<<"g">>, "plain") >> >>, FALSE, << >>) >>
            ELSE << >>)

ChildrenOf(rtss) ==
    [i \in 1..Len(rtss) |-> ChildBlock(i, rtss[i])]

\* a paragraph whose text is made of body tokens, with no Children property
\* or with up to MaxChildren children
IsScbInput(b) ==
    \E t \in TokenTexts(BodyTokens, MaxBodyTokens) :
        \/ b = MkBlock(<<"p", 0>>, "Paragraph", << CutSpans(t, 0, "plain") >>, FALSE, << >>)
        \/ \E rtss \in SeqsUpTo(ChildRichTexts, MaxChildren) :
              b = MkBlock(<<"p", 0>>, "Paragraph", << CutSpans(t, 0, "plain") >>,
                          TRUE, ChildrenOf(rtss))

ScbConfig ==
    [NoConfig EXCEPT !["start-of-child-blocks"] = TRUE]

ScbInit ==
    /\ CitIdle
    /\ BibIdle
    /\ BcIdle
    /\ SplitIdle
    /\ config = ScbConfig
    /\ IsScbInput(fnInput)
    /\ fnBlock = fnInput
    /\ fnResult = NoFootnotes
    /\ fnStage = "ready"

\* extractFootnotesFromBlock, source start-of-child-blocks
ScbExtract ==
    /\ fnStage = "ready"
    /\ getActiveSource(config) = "start-of-child-blocks"
    /\ LET r == extractStartOfChildBlocksFootnotes(fnBlock, MarkerPrefix)
       IN  /\ fnBlock' = r.block
           /\ fnResult' = r.result
    /\ fnStage' = "done"
    /\ UNCHANGED <<config, fnInput, splitVars, bcVars, bibVars, citVars>>

ScbNext ==
    ScbExtract

SpecScb ==
    ScbInit /\ [][ScbNext]_vars

\* the Ids of the blocks of a list, in order
IdsOf(blocks) ==
    [i \in 1..Len(blocks) |-> blocks[i].Id]

\* how many times id stands in the list ids
Occurrences(ids, id) ==
    Cardinality({i \in 1..Len(ids) : ids[i] = id})

\* the Ids of the blocks that are the content of footnote n
FootnoteBlockIds(n) ==
    IdsOf(Footnotes[n].Content.Blocks)

\* the child begins with "[^<prefix><key>]: "
ChildStartsWith(child, key) ==
    /\ Len(child.RichTexts[1]) > 0
    /\ MatchLit(joinPlainText(child.RichTexts[1]), 0,
                <<"[", "^">> \o MarkerPrefix \o key \o <<"]", ":", " ">>)

----------------------------------------------------------------------------
(* C2: start-of-child-blocks: a block with the two inline markers [^ft_a]  *)
(* and [^ft_b] and three children, child 0 starting with "[^ft_a]: ",      *)
(* child 1 plain text, child 2 starting with "[^ft_b]: ": extraction       *)
(* leaves child 1 as the only remaining child and returns two footnotes,   *)
(* a and b, whose block content is child 0 and child 2.                    *)

IsTwoMarkersThreeChildren ==
    /\ InputText(1) = TokRefA \o TokRefB
    /\ fnInput.HasChildren
    /\ Len(fnInput.Children) = 3
    /\ ChildStartsWith(fnInput.Children[1], <<"a">>)
    /\ fnInput.Children[2].RichTexts[1] = << StyledSpan(<<"p", "l", "a", "i", "n">>, "plain") >>
    /\ ChildStartsWith(fnInput.Children[3], <<"b">>)

C2_TwoFootnotesOneRemaining ==
    (fnStage = "done" /\ getActiveSource(config) = "start-of-child-blocks"
        /\ IsTwoMarkersThreeChildren) =>
        /\ IdsOf(fnBlock.Children) = << ChildId(2) >>
        /\ Len(Footnotes) = 2
        /\ Footnotes[1].Marker = <<"a">>
        /\ Footnotes[2].Marker = <<"b">>
        /\ FootnoteBlockIds(1) = << ChildId(1) >>
        /\ FootnoteBlockIds(2) = << ChildId(3) >>

----------------------------------------------------------------------------
(* C3: start-of-child-blocks, a block with at least one inline marker:     *)
(* every original child ends up in exactly one place, as the content of    *)
(* exactly one footnote or once among the remaining children, and the      *)
(* remaining children keep their original relative order.                  *)

C3_ChildrenPartitioned ==
    (fnStage = "done" /\ getActiveSource(config) = "start-of-child-blocks"
        /\ Len(InputMarkers) >= 1) =>
        /\ \A c \in 1..Len(fnInput.Children) :
              Occurrences(IdsOf(fnBlock.Children), ChildId(c))
              + Cardinality({n \in 1..Len(Footnotes) :
                                Occurrences(FootnoteBlockIds(n), ChildId(c)) > 0})
              = 1
        /\ \A i, j \in 1..Len(fnBlock.Children) :
              i < j => fnBlock.Children[i].Id[2] < fnBlock.Children[j].Id[2]

----------------------------------------------------------------------------
(* C22: start-of-child-blocks: every child that is the content of a        *)
(* footnote had, before extraction, a first rich-text field whose joined   *)
(* text begins at offset 0 with "[^<prefix><key>]:" and the whitespace     *)
(* after it, and the joined text it has as footnote content is the         *)
(* original text without that prefix, texts of several lines included.     *)

\* the children of the input that became the content of footnote n
ConsumedChildren(n) ==
    {i \in 1..Len(fnInput.Children) :
        fnInput.Children[i].Id = Footnotes[n].Content.Blocks[1].Id}

C22_OnlyLeadingPrefixRemoved ==
    (fnStage = "done" /\ getActiveSource(config) = "start-of-child-blocks") =>
        \A n \in 1..Len(Footnotes) :
            \A i \in ConsumedChildren(n) :
                LET original == joinPlainText(fnInput.Children[i].RichTexts[1])
                    e == ContentMatchEnd(original, 0, MarkerPrefix)
                IN  /\ e >= 0
                    /\ joinPlainText(Footnotes[n].Content.Blocks[1].RichTexts[1])
                           = substringFrom(original, e)

\* the same statement for children whose text is a single line
C22_SingleLine ==
    (fnStage = "done" /\ getActiveSource(config) = "start-of-child-blocks") =>
        \A n \in 1..Len(Footnotes) :
            \A i \in ConsumedChildren(n) :
                LET original == joinPlainText(fnInput.Children[i].RichTexts[1])
                    e == ContentMatchEnd(original, 0, MarkerPrefix)
                IN  (\A k \in 1..Len(original) : original[k] \notin LineTerminators) =>
                        /\ e >= 0
                        /\ joinPlainText(Footnotes[n].Content.Blocks[1].RichTexts[1])
                               = substringFrom(original, e)

----------------------------------------------------------------------------
(* Specification SpecBc: block-comments extraction of a block, step by     *)
(* step: the provider call, the comments one after the other, the split.   *)

MaxComments == 2

Attachment(url) ==
    [category |-> "image", file |-> [url |-> url, expiry_time |-> "t"]]

CommentOf(rich_text, attachments) ==
    [rich_text |-> rich_text, attachments |-> attachments]

\* a comment: a definition of a, of b, plain text, no text at all, a second
\* line that starts with a definition, a definition with an attachment
CommentForms ==
    {CommentOf(<< NotionRichText(TokRefA \o TokColon \o TokSp \o <<"n">>, FALSE, FALSE) >>, << >>),
     CommentOf(<< NotionRichText(TokRefB \o TokColon \o TokSp \o <<"m">>, FALSE, FALSE),
                  NotionRichText(<<"o">>, TRUE, FALSE) >>, << >>),
     CommentOf(<< NotionRichText(<<"p", "l", "a", "i", "n">>, FALSE, FALSE) >>, << >>),
     CommentOf(<< >>, << >>),
     CommentOf(<< NotionRichText(TokX \o <<"\n">> \o TokRefA \o TokColon \o TokSp \o <<"y">>,
                                 FALSE, FALSE) >>, << >>),
     CommentOf(<< NotionRichText(TokRefA \o TokColon \o TokSp \o <<"n">>, FALSE, FALSE) >>,
               << Attachment("u"), Attachment("") >>)}

BcConfig ==
    [NoConfig EXCEPT !["block-comments"] = TRUE]

BcInit ==
    /\ CitIdle
    /\ BibIdle
    /\ SplitIdle
    /\ config = BcConfig
    /\ \E t \in TokenTexts(BodyTokens, MaxBodyTokens) :
          fnInput = MkBlock(<<"p", 0>>, "Paragraph", << CutSpans(t, 0, "plain") >>,
                            FALSE, << >>)
    /\ fnBlock = fnInput
    /\ fnResult = NoFootnotes
    /\ fnStage = "ready"
    /\ notionClient \in BOOLEAN
    /\ response \in SeqsUpTo(CommentForms, MaxComments)
    /\ commentIndex = 0
    /\ patternLastIndex = 0
    /\ bcFootnotes = << >>
    /\ listCalls = 0
    /\ logged = "none"

BcStart_ListsWithoutMarkers ==
    /\ fnStage = "ready"
    /\ getActiveSource(config) = "block-comments"
    /\ IF ~notionClient
       THEN /\ fnResult' = NoFootnotes
            /\ fnStage' = "done"
            /\ UNCHANGED listCalls
       ELSE /\ fnStage' = "listing"
            /\ listCalls' = listCalls + 1
            /\ UNCHANGED fnResult
    /\ UNCHANGED <<config, fnInput, fnBlock, splitVars, notionClient, response,
                   commentIndex, patternLastIndex, bcFootnotes, logged, bibVars, citVars>>

\* extractBlockCommentsFootnotes up to "await notionClient.comments.list"
BcStart ==
    /\ fnStage = "ready"
    /\ getActiveSource(config) = "block-comments"
    /\ LET markers == findAllFootnoteMarkers(getAllRichTextLocations(fnBlock), MarkerPrefix)
       IN  IF Len(markers) = 0 \/ ~notionClient
           THEN /\ fnResult' = NoFootnotes
                /\ fnStage' = "done"
                /\ UNCHANGED listCalls
           ELSE /\ fnStage' = "listing"
                /\ listCalls' = listCalls + 1
                /\ UNCHANGED fnResult
    /\ UNCHANGED <<config, fnInput, fnBlock, splitVars, notionClient, response,
                   commentIndex, patternLastIndex, bcFootnotes, logged, bibVars, citVars>>

\* the provider answers: comments = response.results, a new contentPattern
BcListReturns ==
    /\ fnStage = "listing"
    /\ fnStage' = "comments"
    /\ commentIndex' = 1
    /\ patternLastIndex' = 0
    /\ bcFootnotes' = << >>
    /\ UNCHANGED <<config, fnInput, fnBlock, fnResult, splitVars, notionClient,
                   response, listCalls, logged, bibVars, citVars>>

BcListFails_SplitsMarkers ==
    /\ fnStage = "listing"
    /\ \E status \in {403, 500} :
          logged' = IF status = 403 THEN "warn" ELSE "error"
    /\ LET locations == getAllRichTextLocations(fnBlock)
           markers == findAllFootnoteMarkers(locations, MarkerPrefix)
       IN  fnBlock' = SplitMarkersInLocations(fnBlock, locations, markers, 1)
    /\ fnResult' = NoFootnotes
    /\ fnStage' = "done"
    /\ UNCHANGED <<config, fnInput, splitVars, notionClient, response,
                   commentIndex, patternLastIndex, bcFootnotes, listCalls, bibVars, citVars>>

\* the provider call throws, with status 403 (permission) or another error
BcListFails ==
    /\ fnStage = "listing"
    /\ \E status \in {403, 500} :
          logged' = IF status = 403 THEN "warn" ELSE "error"
    /\ fnResult' = NoFootnotes
    /\ fnStage' = "done"
    /\ UNCHANGED <<config, fnInput, fnBlock, splitVars, notionClient, response,
                   commentIndex, patternLastIndex, bcFootnotes, listCalls, bibVars, citVars>>

\* one pass of the for loop, the downloads of the comment's files succeeding
BcComment ==
    /\ fnStage = "comments"
    /\ commentIndex <= Len(response)
    /\ LET r == ProcessComment(response[commentIndex], bcFootnotes, patternLastIndex, MarkerPrefix)
       IN  /\ bcFootnotes' = r.footnotes
           /\ patternLastIndex' = r.lastIndex
    /\ commentIndex' = commentIndex + 1
    /\ UNCHANGED <<config, fnInput, fnBlock, fnResult, fnStage, splitVars,
                   notionClient, response, listCalls, logged, bibVars, citVars>>

\* "await downloadFile" of a matched comment's attachment throws
BcDownloadFails ==
    /\ fnStage = "comments"
    /\ commentIndex <= Len(response)
    /\ ProcessComment(response[commentIndex], bcFootnotes, patternLastIndex, MarkerPrefix).matched
    /\ AttachmentsOf(response[commentIndex].attachments) # << >>
    /\ logged' = "error"
    /\ fnResult' = NoFootnotes
    /\ fnStage' = "done"
    /\ UNCHANGED <<config, fnInput, fnBlock, splitVars, notionClient, response,
                   commentIndex, patternLastIndex, bcFootnotes, listCalls, bibVars, citVars>>

\* after the loop: the markers of every location are split, the result returned
BcFinish ==
    /\ fnStage = "comments"
    /\ commentIndex > Len(response)
    /\ LET locations == getAllRichTextLocations(fnBlock)
           markers == findAllFootnoteMarkers(locations, MarkerPrefix)
       IN  fnBlock' = SplitMarkersInLocations(fnBlock, locations, markers, 1)
    /\ fnResult' = [footnotes |-> bcFootnotes,
                    hasProcessedRichTexts |-> TRUE,
                    hasProcessedChildren |-> FALSE]
    /\ fnStage' = "done"
    /\ UNCHANGED <<config, fnInput, splitVars, bcVars, bibVars, citVars>>

BcNext ==
    \/ BcStart
    \/ BcListReturns
    \/ BcListFails
    \/ BcComment
    \/ BcDownloadFails
    \/ BcFinish

SpecBc ==
    BcInit /\ [][BcNext]_vars

\* the comment's first text run begins with "[^<prefix><key>]:"
IsFootnoteComment(comment) ==
    /\ Len(comment.rich_text) > 0
    /\ ContentMatchEnd(comment.rich_text[1].plain_text, 0, MarkerPrefix) >= 0

\* the key a footnote comment defines
CommentKey(comment) ==
    ContentExec(comment.rich_text[1].plain_text, 0, MarkerPrefix).key

FootnoteComments ==
    SelectSeq(response, IsFootnoteComment)

----------------------------------------------------------------------------
(* C4: block-comments: the provider answered and every comment was         *)
(* processed: the footnotes returned are, in order, one per comment whose  *)
(* first text run begins with the colon-suffixed marker pattern, whatever  *)
(* comments precede it in the list; the other comments yield none.         *)

C4_OneFootnotePerMatchingComment ==
    (fnStage = "done" /\ getActiveSource(config) = "block-comments"
        /\ fnResult.hasProcessedRichTexts) =>
        /\ Len(Footnotes) = Len(FootnoteComments)
        /\ \A n \in 1..Len(Footnotes) :
              Footnotes[n].Marker = CommentKey(FootnoteComments[n])

----------------------------------------------------------------------------
(* Specification SpecBib: fetchBibTeXFile calls of one build session on a  *)
(* cache directory left by earlier sessions, concurrent for different      *)
(* urls, followed by one parseBibTeXFiles call.                            *)

MaxCalls == 2
MaxUrls == 2

\* times: a fetch of an earlier session, the last build, the session's clock
EarlierFetchTime == 1
LastBuildTime == 2
SessionTime == 3

RawEntry(id, author, year, title) ==
    [id |-> id, author |-> author, year |-> year, title |-> title]

BibContent(parseable, data) ==
    [parseable |-> parseable, data |-> data]

\* what the sources can hold now, and what they held when the cache was made
RemoteContents(url) ==
    IF url = GistUrl
    THEN {BibContent(TRUE, << RawEntry(<<"k", "1">>, << "Smith" >>, "2020", "new") >>),
          BibContent(FALSE, << >>)}
    ELSE {BibContent(TRUE, << RawEntry(<<"k", "1">>, << "Lee", "Kim" >>, "", "box"),
                              RawEntry(<< >>, << >>, "", "nokey"),
                              RawEntry(<<"k", "-", ":">>, << "A", "B", "C" >>, "1999", "two") >>)}

EarlierContent(url) ==
    BibContent(TRUE, << RawEntry(<<"k", "1">>, << "Smith" >>, "2019", "old") >>)

EarlierParsed(url) ==
    [present |-> TRUE, entries |-> parseAndFormatBibTeXContent(EarlierContent(url)).entries]

\* the cache of one url as earlier sessions can have left it: nothing, or
\* the metadata of a fetch with the snapshot it saved (none when the content
\* did not parse); <hash>.bib is written by no function of the module, it
\* is there or not
IsEarlierCache(url, bib, meta, parsed) ==
    /\ bib \in BOOLEAN
    /\ parsed \in {NoParsed, EarlierParsed(url)}
    /\ \/ meta = NoMeta /\ parsed = NoParsed
       \/ \E stored \in IF get_bib_source_info(url).updated_url = ""
                        THEN {""} ELSE {"", "t1"} :
             meta = MetaOf(url, stored, Len(parsed.entries), EarlierFetchTime)

BibInit ==
    /\ CitIdle
    /\ SplitIdle
    /\ FnIdle
    /\ BcIdle
    /\ lastBuildTime \in {0, LastBuildTime}
    /\ now = SessionTime
    /\ bibFile \in [Urls -> BOOLEAN]
    /\ metaFile \in [Urls -> {NoMeta} \cup {MetaOf(u, stored, n, EarlierFetchTime) :
                                              u \in Urls, stored \in {"", "t1"}, n \in 0..1}]
    /\ parsedFile \in [Urls -> {NoParsed} \cup {EarlierParsed(u) : u \in Urls}]
    /\ \A u \in Urls : IsEarlierCache(u, bibFile[u], metaFile[u], parsedFile[u])
    /\ bibFile[DropboxUrl] = metaFile[DropboxUrl].present
    /\ parsedFile[DropboxUrl].present = metaFile[DropboxUrl].present
    /\ mappingFile = [u \in Urls |->
                         IF metaFile[u].present
                         THEN updateBibFilesMapping([v \in Urls |-> NoMapping], u,
                                  get_bib_source_info(u).download_url, EarlierFetchTime)[u]
                         ELSE NoMapping]
    /\ combinedFile = NoCombined
    /\ \E updated \in {"t1", "t2"} :
       \E gist \in RemoteContents(GistUrl) :
       \E box \in RemoteContents(DropboxUrl) :
          remote = [u \in Urls |->
                       IF u = GistUrl
                       THEN [content |-> gist, updated_at |-> updated]
                       ELSE [content |-> box, updated_at |-> ""]]
    /\ call = [u \in Urls |-> IdleCall]
    /\ fetchCalls = [u \in Urls |-> 0]
    /\ merge = IdleMerge

BibCacheUnchanged ==
    UNCHANGED <<bibFile, metaFile, parsedFile, mappingFile, combinedFile>>

BibFrame ==
    UNCHANGED <<splitVars, fnVars, bcVars, lastBuildTime, now, remote, citVars>>

\* a caller calls fetchBibTeXFile(url)
BibFetchCall(url) ==
    /\ merge.pc = "idle"
    /\ call[url].pc \in {"idle", "done"}
    /\ fetchCalls[url] < MaxCalls
    /\ call' = [call EXCEPT ![url] = StartOfFetch(url, bibFile, metaFile, lastBuildTime)]
    /\ fetchCalls' = [fetchCalls EXCEPT ![url] = @ + 1]
    /\ UNCHANGED merge
    /\ BibCacheUnchanged
    /\ BibFrame

\* the update probe made before the refetch decision answers: the remote
\* timestamp, or null when the request failed or held none
BibProbeReturns(url) ==
    /\ call[url].pc = "probe"
    /\ \E remoteLastUpdated \in {"", remote[url].updated_at} :
          call' = [call EXCEPT ![url] = AfterProbe(@, remoteLastUpdated)]
    /\ UNCHANGED <<fetchCalls, merge>>
    /\ BibCacheUnchanged
    /\ BibFrame

\* the download answers: the content is parsed and saved, and for a source
\* without probe the metadata and the mapping are written
BibDownloadReturns(url) ==
    /\ call[url].pc = "download"
    /\ LET sourceInfo == get_bib_source_info(url)
           parsed == parseAndFormatBibTeXContent(remote[url].content)
           entryCount == IF parsed.threw THEN 0 ELSE Len(parsed.entries)
       IN  /\ parsedFile' = IF parsed.threw THEN parsedFile
                            ELSE saveParsedCitations(parsedFile, url, parsed.entries)
           /\ IF sourceInfo.updated_url # ""
              THEN /\ call' = [call EXCEPT ![url] =
                                  [@ EXCEPT !.pc = "postprobe", !.entryCount = entryCount]]
                   /\ UNCHANGED <<metaFile, mappingFile>>
              ELSE /\ metaFile' = [metaFile EXCEPT ![url] = MetaOf(url, "", entryCount, now)]
                   /\ mappingFile' = updateBibFilesMapping(mappingFile, url,
                                                           sourceInfo.download_url, now)
                   /\ call' = [call EXCEPT ![url] =
                                  [@ EXCEPT !.pc = "done", !.entryCount = entryCount,
                                            !.result = "success"]]
    /\ UNCHANGED <<bibFile, combinedFile, fetchCalls, merge>>
    /\ BibFrame

\* the download fails
BibDownloadFails(url) ==
    /\ call[url].pc = "download"
    /\ call' = [call EXCEPT ![url] = AfterDownloadFailure(@, url, parsedFile)]
    /\ UNCHANGED <<fetchCalls, merge>>
    /\ BibCacheUnchanged
    /\ BibFrame

\* the update probe made after the download answers: the metadata and the
\* mapping are written
BibPostProbeReturns(url) ==
    /\ call[url].pc = "postprobe"
    /\ \E remoteLastUpdated \in {"", remote[url].updated_at} :
          metaFile' = [metaFile EXCEPT ![url] =
                          MetaOf(url, remoteLastUpdated, call[url].entryCount, now)]
    /\ mappingFile' = updateBibFilesMapping(mappingFile, url,
                                            get_bib_source_info(url).download_url, now)
    /\ call' = [call EXCEPT ![url] = [@ EXCEPT !.pc = "done", !.result = "success"]]
    /\ UNCHANGED <<bibFile, parsedFile, combinedFile, fetchCalls, merge>>
    /\ BibFrame

\* parseBibTeXFiles(urls) is called, no fetch being under way
BibParseCall ==
    /\ merge.pc = "idle"
    /\ \A u \in Urls : call[u].pc \in {"idle", "done"}
    /\ \E urls \in SeqsUpTo(Urls, MaxUrls) :
          merge' = [pc |-> "loop", urls |-> urls, index |-> 1, allEntries |-> << >>,
                    results |-> << >>]
    /\ UNCHANGED <<call, fetchCalls>>
    /\ BibCacheUnchanged
    /\ BibFrame

\* for (const url of urls): await fetchBibTeXFile(url)
BibParseFetch ==
    /\ merge.pc = "loop"
    /\ merge.index <= Len(merge.urls)
    /\ LET url == merge.urls[merge.index]
       IN  /\ call' = [call EXCEPT ![url] =
                          StartOfFetch(url, bibFile, metaFile, lastBuildTime)]
           /\ fetchCalls' = [fetchCalls EXCEPT ![url] = @ + 1]
    /\ merge' = [merge EXCEPT !.pc = "await"]
    /\ BibCacheUnchanged
    /\ BibFrame

\* the fetch has returned or thrown: the snapshot is merged, or the catch
\* block passes on to the next url
BibParseLoad ==
    /\ merge.pc = "await"
    /\ LET url == merge.urls[merge.index]
           parsedCitations == loadParsedCitations(parsedFile, url)
       IN  /\ call[url].pc = "done"
           /\ merge' = [merge EXCEPT
                           !.pc = "loop",
                           !.index = @ + 1,
                           !.results = Append(@, call[url].result),
                           !.allEntries =
                               IF call[url].result = "threw" \/ parsedCitations.isNull
                               THEN @
                               ELSE MergeEntries(@, parsedCitations.entries)]
    /\ UNCHANGED <<call, fetchCalls>>
    /\ BibCacheUnchanged
    /\ BibFrame

\* after the loop: saveCombinedEntries(allEntries), return allEntries
BibParseReturns ==
    /\ merge.pc = "loop"
    /\ merge.index > Len(merge.urls)
    /\ combinedFile' = [present |-> TRUE, entries |-> merge.allEntries]
    /\ merge' = [merge EXCEPT !.pc = "done"]
    /\ UNCHANGED <<bibFile, metaFile, parsedFile, mappingFile, call, fetchCalls>>
    /\ BibFrame

BibNext ==
    \/ \E url \in Urls : BibFetchCall(url)
    \/ \E url \in Urls : BibProbeReturns(url)
    \/ \E url \in Urls : BibDownloadReturns(url)
    \/ \E url \in Urls : BibDownloadFails(url)
    \/ \E url \in Urls : BibPostProbeReturns(url)
    \/ BibParseCall
    \/ BibParseFetch
    \/ BibParseLoad
    \/ BibParseReturns

SpecBib ==
    BibInit /\ [][BibNext]_vars

\* a source with an update probe (gist or repository file)
ProbeCapable(url) ==
    get_bib_source_info(url).updated_url # ""

\* the metadata was written by a fetch of the current build session
FetchedThisSession(meta) ==
    meta.present /\ meta.last_fetched >= SessionTime

\* the keys of a Map
KeysOf(map) ==
    {map[i].key : i \in 1..Len(map)}

----------------------------------------------------------------------------
(* C5: once a probe-capable source was fetched and cached in the current   *)
(* session, a later fetchBibTeXFile call for the same url calls no probe,  *)
(* downloads nothing and returns the cached result.                        *)

C5_LaterCallUsesCache ==
    \A url \in Urls :
        (/\ ProbeCapable(url)
         /\ call[url].pc # "idle"
         /\ FetchedThisSession(call[url].metaAtCall)) =>
            /\ ~call[url].probed
            /\ ~call[url].downloaded
            /\ call[url].pc = "done"
            /\ call[url].result = "cached"

----------------------------------------------------------------------------
(* C6: a failed download with a parsed snapshot of the url in the cache    *)
(* makes fetchBibTeXFile return the fallback result, and parseBibTeXFiles  *)
(* merges that snapshot's entries; the failure is thrown only when there   *)
(* is no snapshot.                                                         *)

C6_FallbackWhenSnapshotExists ==
    /\ \A url \in Urls :
          (call[url].pc = "done" /\ call[url].downloadFailed) =>
              call[url].result =
                  IF parsedFile[url].present THEN "cached-fallback" ELSE "threw"
    /\ merge.pc = "done" =>
          \A i \in 1..Len(merge.urls) :
              (/\ merge.results[i] \in {"cached-fallback", "threw"}
               /\ parsedFile[merge.urls[i]].present) =>
                  KeysOf(parsedFile[merge.urls[i]].entries) \subseteq KeysOf(merge.allEntries)

----------------------------------------------------------------------------
(* C7: a probe-capable source whose cache metadata was not written in the  *)
(* current session, the probe answering a timestamp: the file is           *)
(* downloaded when the timestamp differs from the stored last_updated      *)
(* (a stored null included), else the cached result is returned without    *)
(* a download.                                                             *)

C7_DownloadIffTimestampDiffers ==
    \A url \in Urls :
        (/\ ProbeCapable(url)
         /\ call[url].metaAtCall.present
         /\ ~FetchedThisSession(call[url].metaAtCall)
         /\ call[url].probeAnswered
         /\ call[url].remoteLastUpdated # "") =>
            IF call[url].remoteLastUpdated # call[url].metaAtCall.last_updated
            THEN call[url].downloaded
            ELSE /\ ~call[url].downloaded
                 /\ call[url].pc = "done"
                 /\ call[url].result = "cached"

----------------------------------------------------------------------------
(* C16: parseBibTeXFiles(urls) returns, whatever source fails, the         *)
(* key-wise merge in list order of the parsed snapshots of the urls whose  *)
(* fetch did not throw: its keys are the keys of those snapshots, each key *)
(* has the entry of the last such url of the list that defines it, and a   *)
(* url whose fetch threw adds, removes and alters nothing.                 *)

\* the positions of the list whose fetch did not throw and left a snapshot
Contributing ==
    {i \in 1..Len(merge.urls) :
        /\ merge.results[i] # "threw"
        /\ parsedFile[merge.urls[i]].present}

SnapshotOf(i) ==
    parsedFile[merge.urls[i]].entries

C16_MergeInListOrder ==
    merge.pc = "done" =>
        /\ Len(merge.results) = Len(merge.urls)
        /\ KeysOf(merge.allEntries) = UNION {KeysOf(SnapshotOf(i)) : i \in Contributing}
        /\ \A k \in KeysOf(merge.allEntries) :
              LET last == CHOOSE i \in Contributing :
                              /\ k \in KeysOf(SnapshotOf(i))
                              /\ \A j \in Contributing :
                                    k \in KeysOf(SnapshotOf(j)) => j <= i
              IN  MapGet(merge.allEntries, k) = MapGet(SnapshotOf(last), k)
        /\ \A i, j \in 1..Len(merge.allEntries) :
              merge.allEntries[i].key = merge.allEntries[j].key => i = j
        /\ combinedFile.present
        /\ combinedFile.entries = merge.allEntries

\* two urls that define the same key, the one listed last with another entry
C16_Witness ==
    /\ merge.pc = "done"
    /\ Len(merge.urls) = 2
    /\ Contributing = {1, 2}
    /\ \E k \in KeysOf(SnapshotOf(1)) \cap KeysOf(SnapshotOf(2)) :
          MapGet(SnapshotOf(1), k) # MapGet(SnapshotOf(2), k)

\* a url whose fetch threw listed after a url that contributed
C16_WitnessFailing ==
    /\ merge.pc = "done"
    /\ Len(merge.urls) = 2
    /\ merge.results[2] = "threw"
    /\ Contributing = {1}
    /\ merge.allEntries # << >>

(***************************************************************************)
(* C21: two fetchBibTeXFile calls for different urls, their steps          *)
(* interleaved in any way, both ended with a success: the metadata file of *)
(* each url holds that url, its parsed file name and the entry count of    *)
(* its call, the snapshot of a url whose content parsed holds the entries  *)
(* of that content, and the mapping file has an entry for both urls, each  *)
(* with its own download url.                                              *)
(***************************************************************************)
BothSucceeded ==
    \A u \in Urls : call[u].pc = "done" /\ call[u].result = "success"

C21_ConcurrentFetchesKeepOwnData ==
    BothSucceeded =>
        \A u \in Urls :
            LET parsed == parseAndFormatBibTeXContent(remote[u].content)
            IN  /\ metaFile[u].present
                /\ metaFile[u].url = u
                /\ metaFile[u].parsed_file = << "parsed_" >> \o UrlHash(u) \o << ".json" >>
                /\ metaFile[u].entry_count = call[u].entryCount
                /\ metaFile[u].last_updated \in {"", remote[u].updated_at}
                /\ ~parsed.threw =>
                      /\ parsedFile[u].present
                      /\ parsedFile[u].entries = parsed.entries
                      /\ metaFile[u].entry_count = Len(parsed.entries)
                /\ mappingFile[u].present
                /\ mappingFile[u].cached_as = UrlHash(u) \o << ".bib" >>
                /\ mappingFile[u].download_url = get_bib_source_info(u).download_url

\* both calls were the first for their url on an empty cache, so both wrote
\* their files in this session, and the two snapshots differ
C21_Witness ==
    /\ BothSucceeded
    /\ \A u \in Urls : ~call[u].metaAtCall.present /\ fetchCalls[u] = 1
    /\ \A u \in Urls : parsedFile[u].present
    /\ parsedFile[GistUrl].entries # parsedFile[DropboxUrl].entries
    /\ merge.pc = "idle"

\* the two calls under way at once: one waits for its download while the
\* other, its download done, waits for the probe that follows it
C21_WitnessInFlight ==
    /\ call[GistUrl].pc = "postprobe"
    /\ call[DropboxUrl].pc = "download"

----------------------------------------------------------------------------
(* C27: at every moment of a session of fetchBibTeXFile calls, for every   *)
(* url whose metadata file exists the parsed snapshot it names exists and  *)
(* holds as many entries as the metadata's entry_count, also after a fetch *)
(* whose downloaded content did not parse.                                 *)

MetaMatchesSnapshot(u) ==
    metaFile[u].present =>
        /\ parsedFile[u].present
        /\ Len(parsedFile[u].entries) = metaFile[u].entry_count

\* stated for the metadata files written in the session: those of the urls
\* whose last call ended with a success
C27_MetaMatchesSnapshot ==
    \A u \in Urls :
        (call[u].pc = "done" /\ call[u].result = "success") => MetaMatchesSnapshot(u)

\* the same statement for the urls whose downloaded content parses
C27_ParseableContent ==
    \A u \in Urls :
        (call[u].pc = "done" /\ call[u].result = "success"
            /\ remote[u].content.parseable)
        => MetaMatchesSnapshot(u)

----------------------------------------------------------------------------
(* C28: a probe-capable source whose cache metadata the call has loaded,   *)
(* the update probe made for the refetch decision failing or answering no  *)
(* timestamp: fetchBibTeXFile downloads nothing and returns the cached     *)
(* result, and it does not throw.                                          *)

\* the call for url loaded metadata and its probe came back without timestamp
ProbeGaveNothing(url) ==
    /\ ProbeCapable(url)
    /\ call[url].existingMeta.present
    /\ call[url].probeAnswered
    /\ call[url].remoteLastUpdated = ""

----------------------------------------------------------------------------
(* Specification SpecCite: extractCitationsFromBlock applied to a block.   *)

MaxCiteTokens == 3
MaxMarkTokens == 3
MaxFrameTokens == 3
MaxCitations == 3
MaxRangeSpans == 3
MaxRangeSpanLen == 2

KeyOne == <<"k", "1">>
KeyTwo == <<"k", "-", ":">>

CiteToken(citationFormat, key) ==
    CiteOpen(citationFormat) \o key \o CiteClose(citationFormat)

\* the tokens a text is made of: other text, a citation of each key
CiteTokens(citationFormat) ==
    {TokX, CiteToken(citationFormat, KeyOne), CiteToken(citationFormat, KeyTwo)}

\* the text as one span, or cut in two spans of the given styles
CutSpansStyled(text, cut, styles) ==
    IF text = << >>
    THEN << >>
    ELSE IF cut = 0
    THEN << StyledSpan(text, styles[1]) >>
    ELSE << StyledSpan(substring(text, 0, cut), styles[1]),
            StyledSpan(substringFrom(text, cut), styles[2]) >>

CiteStyles ==
    {<<"plain", "code">>, <<"plain", "bold">>, <<"code", "plain">>}

\* the bibliography maps: none, the one of the gist, the one of the dropbox file
BibMaps ==
    {<< >>} \cup
    {parseAndFormatBibTeXContent(c).entries :
        c \in {c \in RemoteContents(GistUrl) \cup RemoteContents(DropboxUrl) : c.parseable}}

CiteConfigs ==
    {[format |-> f, ieee |-> i] :
        <<f, i>> \in {<<"[@key]", TRUE>>, <<"[@key]", FALSE>>, <<"\\cite{key}", FALSE>>,
                      <<"#cite(key)", TRUE>>, <<"(key)", FALSE>>}}

\* the tokens of the texts used under a configuration
TokensUnder(cfg) ==
    CiteTokens(IF KnownFormat(cfg.format) THEN cfg.format ELSE "[@key]")

IsCiteInput(b, cfg) ==
    \/ \E t \in TokenTexts(TokensUnder(cfg), MaxCiteTokens) :
       \E cut \in 0..Max(0, Len(t) - 1) :
       \E styles \in CiteStyles :
          b = Paragraph(CutSpansStyled(t, cut, styles))
    \/ \E c1, c2 \in TokenTexts(TokensUnder(cfg), MaxCellTokens) :
          b = TableOf(<< CutSpans(c1, 0, "plain"), CutSpans(c2, 0, "plain") >>)

CiteInit ==
    /\ SplitIdle
    /\ FnIdle
    /\ BcIdle
    /\ BibIdle
    /\ citConfig \in CiteConfigs
    /\ bibEntries \in BibMaps
    /\ IsCiteInput(citInput, citConfig)
    /\ citBlock = citInput
    /\ citResult = NoCitations
    /\ citStage = "ready"
    /\ PrepIdle

CiteExtract ==
    /\ citStage = "ready"
    /\ LET r == extractCitationsFromBlock(citBlock, citConfig, bibEntries)
       IN  /\ citBlock' = r.block
           /\ citResult' = r.result
    /\ citStage' = "done"
    /\ UNCHANGED <<citConfig, bibEntries, citInput, prepVars, splitVars, fnVars, bcVars, bibVars>>

CiteNext ==
    CiteExtract

SpecCite ==
    CiteInit /\ [][CiteNext]_vars

CiteFields ==
    1..Len(citInput.RichTexts)

\* the citation tokens of field i of the input that do not start in a code run
TokensIn(i) ==
    CiteMatchesOf(citInput.RichTexts[i], citConfig.format)

\* those whose key is in the bibliography map
ResolvedIn(i) ==
    SelectSeq(TokensIn(i), LAMBDA m : MapHas(bibEntries, m.key))

\* the indices of the spans of field i of the output flagged IsCitationMarker
FlaggedIn(i) ==
    SelectSeq([j \in 1..Len(citBlock.RichTexts[i]) |-> j],
              LAMBDA j : citBlock.RichTexts[i][j].IsCitationMarker)

\* the offset at which span j of field i of the output starts
OffsetOf(i, j) ==
    Len(joinPlainText(SubSeq(citBlock.RichTexts[i], 1, j - 1)))

\* the number of tokens of the input, over all fields, resolved to key
RECURSIVE ResolvedCount(_, _)
ResolvedCount(i, key) ==
    IF i = 0 THEN 0
    ELSE ResolvedCount(i - 1, key)
         + Cardinality({n \in 1..Len(ResolvedIn(i)) : ResolvedIn(i)[n].key = key})

RecordsOf(key) ==
    {n \in 1..Len(citResult.citations) : citResult.citations[n].Key = key}

----------------------------------------------------------------------------
(* C10: extractCitationsFromBlock, citation format known: in every field   *)
(* the spans flagged IsCitationMarker are, in order, one per non-code      *)
(* token whose key is in the map, at the token's offset, with PlainText    *)
(* the token text and CitationRef the key; the text of the field is        *)
(* unchanged, so a token with an unknown key keeps its literal text in     *)
(* unflagged spans, whatever tokens stand next to it; the Citation records *)
(* are one per replaced token, each with empty SourceBlockIds.             *)

C10_TokensReplacedIndependently ==
    (citStage = "done" /\ KnownFormat(citConfig.format)) =>
        /\ \A i \in CiteFields :
              /\ joinPlainText(citBlock.RichTexts[i]) = joinPlainText(citInput.RichTexts[i])
              /\ Len(FlaggedIn(i)) = Len(ResolvedIn(i))
              /\ \A n \in 1..Len(FlaggedIn(i)) :
                    LET span == citBlock.RichTexts[i][FlaggedIn(i)[n]]
                        m == ResolvedIn(i)[n]
                    IN  /\ span.PlainText = m.fullMatch
                        /\ span.CitationRef = m.key
                        /\ OffsetOf(i, FlaggedIn(i)[n]) = m.start
        /\ \A key \in {KeyOne, KeyTwo} :
              Cardinality(RecordsOf(key)) = ResolvedCount(Len(citInput.RichTexts), key)
        /\ Len(citResult.citations) =
              ResolvedCount(Len(citInput.RichTexts), KeyOne)
              + ResolvedCount(Len(citInput.RichTexts), KeyTwo)
        /\ \A n \in 1..Len(citResult.citations) :
              citResult.citations[n].SourceBlockIds = << >>

\* a field with a replaced token after a token whose key is unknown
C10_Witness ==
    /\ citStage = "done"
    /\ KnownFormat(citConfig.format)
    /\ \E i \in CiteFields :
          /\ Len(ResolvedIn(i)) = 1
          /\ Len(TokensIn(i)) = 2
          /\ ~MapHas(bibEntries, TokensIn(i)[2].key)
          /\ Len(FlaggedIn(i)) = 1
          /\ Len(citResult.citations) = 1

----------------------------------------------------------------------------
(* C29: the Citation records returned by extractCitationsFromBlock stand   *)
(* field by field in the order the fields are indexed, and within one      *)
(* field in reverse text order, the record of the rightmost resolved token *)
(* first; a key cited k times in the block has k records.                  *)

\* the keys of the resolved tokens of fields 1..i: field after field, each
\* field from its last token to its first
RECURSIVE ExpectedKeys(_)
ExpectedKeys(i) ==
    IF i = 0
    THEN << >>
    ELSE ExpectedKeys(i - 1)
         \o [n \in 1..Len(ResolvedIn(i)) |->
                ResolvedIn(i)[Len(ResolvedIn(i)) + 1 - n].key]

RecordKeys ==
    [n \in 1..Len(citResult.citations) |-> citResult.citations[n].Key]

C29_RecordsInFieldThenReverseOrder ==
    (citStage = "done" /\ KnownFormat(citConfig.format)) =>
        /\ RecordKeys = ExpectedKeys(Len(citInput.RichTexts))
        /\ \A key \in {KeyOne, KeyTwo} :
              Cardinality(RecordsOf(key)) = ResolvedCount(Len(citInput.RichTexts), key)

\* two fields with resolved tokens, the first with two tokens of different
\* keys, and a key cited in both fields
C29_Witness ==
    /\ citStage = "done"
    /\ KnownFormat(citConfig.format)
    /\ Len(citInput.RichTexts) = 2
    /\ Len(ResolvedIn(1)) = 2
    /\ ResolvedIn(1)[1].key # ResolvedIn(1)[2].key
    /\ Len(ResolvedIn(2)) >= 1
    /\ \E key \in {KeyOne, KeyTwo} : Cardinality(RecordsOf(key)) >= 2
    /\ RecordKeys[1] = ResolvedIn(1)[2].key
    /\ RecordKeys[2] = ResolvedIn(1)[1].key

----------------------------------------------------------------------------
(* Specification SpecMark: one block handed both to footnote extraction    *)
(* (a synchronous source) and to citation extraction.                      *)

CiteKeyOne == CiteToken("[@key]", KeyOne)

\* the tokens of a text: an inline marker, the start of a definition, a
\* citation (a citation is other text to the marker finder, a marker is
\* other text to the citation scan)
MarkTokens ==
    {TokRefA, TokDefA, CiteKeyOne}

\* a marker next to a citation
MarkPairs ==
    {TokRefA \o CiteKeyOne, CiteKeyOne \o TokRefA}

IsMarkInput(b) ==
    \/ \E t \in TokenTexts(MarkTokens, MaxMarkTokens) :
       \E cut \in 0..Max(0, Len(t) - 1) :
       \E styles \in CiteStyles :
          b = Paragraph(CutSpansStyled(t, cut, styles))
    \/ \E t1, t2 \in MarkPairs :
       \E cut \in 0..(Len(t1 \o t2) - 1) :
       \E styles \in CiteStyles :
          b = Paragraph(CutSpansStyled(t1 \o t2, cut, styles))
    \/ \E t1, t2 \in MarkTokens \cup {<< >>} :
       \E style \in {"plain", "code"} :
          b = Paragraph(<< StyledSpan(t1, "plain"), StyledSpan(<< >>, style),
                           StyledSpan(t2, "bold") >>)
    \/ \E c1, c2 \in TokenTexts(MarkTokens, MaxCellTokens) :
          b = TableOf(<< CutSpans(c1, 0, "plain"), CutSpans(c2, 0, "plain") >>)

MarkInit ==
    /\ SplitIdle
    /\ BcIdle
    /\ BibIdle
    /\ config \in {EobConfig, ScbConfig}
    /\ IsMarkInput(fnInput)
    /\ fnBlock = fnInput
    /\ fnResult = NoFootnotes
    /\ fnStage = "ready"
    /\ citConfig = [format |-> "[@key]", ieee |-> TRUE]
    /\ bibEntries \in
          (IF config = ScbConfig THEN {<< >>} ELSE {})
          \cup {parseAndFormatBibTeXContent(
                    CHOOSE c \in RemoteContents(GistUrl) : c.parseable).entries}
    /\ citInput = fnInput
    /\ citBlock = citInput
    /\ citResult = NoCitations
    /\ citStage = "ready"
    /\ PrepIdle

MarkNext ==
    \/ EobExtract
    \/ ScbExtract
    \/ CiteExtract

SpecMark ==
    MarkInit /\ [][MarkNext]_vars

\* the sequence of field i handed to splitRichTextWithMarkers: under
\* end-of-block the field without its definitions section, else the field
ScannedRichTexts(i) ==
    IF getActiveSource(config) = "end-of-block"
    THEN extractFootnoteDefinitionsFromRichText(
             fnInput.RichTexts[i], MarkerPrefix,
             joinPlainText(fnInput.RichTexts[i])).cleanedRichTexts
    ELSE fnInput.RichTexts[i]

\* the inline markers of the input that lie in field i
MarkersIn(i) ==
    SelectSeq(InputMarkers,
              LAMBDA m : m.BlockProperty = PropertyOf(fnInput, i))

\* the indices of the spans of field i of the output flagged IsFootnoteMarker
FlaggedFnIn(i) ==
    SelectSeq([j \in 1..Len(fnBlock.RichTexts[i]) |-> j],
              LAMBDA j : fnBlock.RichTexts[i][j].IsFootnoteMarker)

----------------------------------------------------------------------------
(* C11: for every field processed by splitRichTextWithMarkers, and for     *)
(* every field processed by extractCitationsFromBlock, the joined          *)
(* PlainText of the spans written back equals the joined PlainText of the  *)
(* spans scanned: marking spans changes no character of the text.          *)

C11_MarkingKeepsText ==
    /\ (fnStage = "done" /\ fnResult.hasProcessedRichTexts) =>
          \A i \in FnFields :
              OutputText(i) = joinPlainText(ScannedRichTexts(i))
    /\ (citStage = "done") =>
          \A i \in CiteFields :
              joinPlainText(citBlock.RichTexts[i]) = joinPlainText(citInput.RichTexts[i])

\* a field in which a marker span and a citation span were both cut out
C11_Witness ==
    /\ fnStage = "done"
    /\ citStage = "done"
    /\ \E i \in FnFields :
          /\ Len(FlaggedFnIn(i)) >= 1
          /\ Len(fnBlock.RichTexts[i]) > Len(fnInput.RichTexts[i])
          /\ Len(FlaggedIn(i)) >= 1
          /\ Len(citBlock.RichTexts[i]) > Len(citInput.RichTexts[i])

\* the block as handed to splitRichTextWithMarkers, field by field
ScannedBlock ==
    [fnInput EXCEPT !.RichTexts = [i \in FnFields |-> ScannedRichTexts(i)]]

\* the markers found before the split and those found in the block after it
MarkersBeforeSplit ==
    findAllFootnoteMarkers(getAllRichTextLocations(ScannedBlock), MarkerPrefix)

MarkersAfterSplit ==
    findAllFootnoteMarkers(getAllRichTextLocations(fnBlock), MarkerPrefix)

\* the block after splitRichTextWithMarkers was applied once more
SplitAgain ==
    SplitMarkersInLocations(fnBlock, getAllRichTextLocations(fnBlock),
                            MarkersAfterSplit, 1)

----------------------------------------------------------------------------
(* C18: findAllFootnoteMarkers applied to the fields written back by       *)
(* splitRichTextWithMarkers finds as many markers as before the split, at  *)
(* the same offsets of the same fields, and a second                       *)
(* splitRichTextWithMarkers with these markers leaves every field with the *)
(* same number of spans.                                                   *)

C18_SplitIsIdempotent ==
    (fnStage = "done" /\ fnResult.hasProcessedRichTexts) =>
        /\ Len(MarkersAfterSplit) = Len(MarkersBeforeSplit)
        /\ \A n \in 1..Len(MarkersAfterSplit) :
              /\ MarkersAfterSplit[n].BlockProperty = MarkersBeforeSplit[n].BlockProperty
              /\ MarkersAfterSplit[n].CharStart = MarkersBeforeSplit[n].CharStart
              /\ MarkersAfterSplit[n].CharEnd = MarkersBeforeSplit[n].CharEnd
              /\ MarkersAfterSplit[n].Marker = MarkersBeforeSplit[n].Marker
        /\ \A i \in FnFields :
              Len(SplitAgain.RichTexts[i]) = Len(fnBlock.RichTexts[i])

\* a field split at two markers, with more spans than before
C18_Witness ==
    /\ fnStage = "done"
    /\ fnResult.hasProcessedRichTexts
    /\ \E i \in FnFields :
          /\ Len(FlaggedFnIn(i)) >= 2
          /\ Len(fnBlock.RichTexts[i]) >= Len(fnInput.RichTexts[i]) + 2
    /\ Len(MarkersAfterSplit) >= 2

\* the run of rts that holds offset o has the Code annotation
CodeAt(rts, o) ==
    \E j \in 1..Len(rts) :
        LET start == Len(joinPlainText(SubSeq(rts, 1, j - 1)))
        IN  /\ start <= o
            /\ o < start + Len(rts[j].PlainText)
            /\ rts[j].Annotation.Code

\* the offsets of field i of the input at which an inline marker starts in
\* a code run, and those at which a citation token does
CodeMarkerOffsets(i) ==
    {o \in 0..Len(InputText(i)) :
        /\ InlineMatchEnd(InputText(i), o, MarkerPrefix) >= 0
        /\ CodeAt(fnInput.RichTexts[i], o)}

CodeCitationOffsets(i) ==
    {o \in 0..Len(joinPlainText(citInput.RichTexts[i])) :
        /\ CiteMatchEnd(joinPlainText(citInput.RichTexts[i]), o, citConfig.format) >= 0
        /\ CodeAt(citInput.RichTexts[i], o)}

\* the offset at which span j of field i of the footnote output starts
FnOffsetOf(i, j) ==
    Len(joinPlainText(SubSeq(fnBlock.RichTexts[i], 1, j - 1)))

----------------------------------------------------------------------------
(* C12: an inline marker whose first character lies in a run with the Code *)
(* annotation is not among the markers reported by findAllFootnoteMarkers  *)
(* and no span is flagged IsFootnoteMarker at its offset; a citation token *)
(* whose first character lies in a code run is not turned into an          *)
(* IsCitationMarker span and no Citation record is made for it; both       *)
(* whatever the annotations of the neighbouring runs.                      *)

C12_CodeRunTokensIgnored ==
    /\ \A i \in FnFields : \A o \in CodeMarkerOffsets(i) :
          /\ \A n \in 1..Len(InputMarkers) :
                ~(/\ InputMarkers[n].BlockProperty = PropertyOf(fnInput, i)
                  /\ InputMarkers[n].CharStart = o)
          /\ fnStage = "done" =>
                \A n \in 1..Len(FlaggedFnIn(i)) : FnOffsetOf(i, FlaggedFnIn(i)[n]) # o
    /\ citStage = "done" =>
          /\ \A i \in CiteFields : \A o \in CodeCitationOffsets(i) :
                \A n \in 1..Len(FlaggedIn(i)) : OffsetOf(i, FlaggedIn(i)[n]) # o
          /\ Len(citResult.citations) =
                Cardinality(UNION {
                    {<<i, o>> : o \in {o \in 0..Len(joinPlainText(citInput.RichTexts[i])) :
                        /\ CiteMatchEnd(joinPlainText(citInput.RichTexts[i]), o,
                                        citConfig.format) >= 0
                        /\ ~CodeAt(citInput.RichTexts[i], o)
                        /\ MapHas(bibEntries, KeyOne)}} : i \in CiteFields})

\* a marker and a citation token that start in a code run, in a field whose
\* other run holds a marker and a citation token that were cut out
C12_Witness ==
    /\ fnStage = "done"
    /\ citStage = "done"
    /\ \E i \in FnFields :
          /\ CodeMarkerOffsets(i) # {}
          /\ CodeCitationOffsets(i) # {}
          /\ Len(FlaggedFnIn(i)) >= 1
          /\ Len(FlaggedIn(i)) >= 1

----------------------------------------------------------------------------
(* C25: after splitRichTextWithMarkers (start-of-child-blocks, where the   *)
(* whole field is handed to it), the spans of a field flagged              *)
(* IsFootnoteMarker are, in order, one per inline marker of the field:     *)
(* FootnoteRef is the marker's key, PlainText is the full marker text      *)
(* "[^<prefix><key>]" and the span starts at the marker's offset; this     *)
(* also when the characters of a marker lie in runs with different         *)
(* annotations.                                                            *)

OneSpanPerMarker(i) ==
    /\ Len(FlaggedFnIn(i)) = Len(MarkersIn(i))
    /\ \A n \in 1..Len(FlaggedFnIn(i)) :
          LET span == fnBlock.RichTexts[i][FlaggedFnIn(i)[n]]
              marker == MarkersIn(i)[n]
          IN  /\ span.FootnoteRef = marker.Marker
              /\ span.PlainText = marker.FullMarker
              /\ FnOffsetOf(i, FlaggedFnIn(i)[n]) = marker.CharStart

C25_OneExactSpanPerMarker ==
    (/\ fnStage = "done"
     /\ getActiveSource(config) = "start-of-child-blocks"
     /\ fnResult.hasProcessedRichTexts) =>
        \A i \in FnFields : OneSpanPerMarker(i)

\* marker n of field i lies inside one span of the input, and the span before
\* it is not empty
InOneRun(i, n) ==
    LET rts == fnInput.RichTexts[i]
        marker == MarkersIn(i)[n]
    IN  \E j \in 1..Len(rts) :
            LET start == Len(joinPlainText(SubSeq(rts, 1, j - 1)))
            IN  /\ start <= marker.CharStart
                /\ marker.CharEnd <= start + Len(rts[j].PlainText)
                /\ \A k \in 1..Len(rts) : rts[k].PlainText # << >>

\* the same statement for the fields whose markers each lie in one run
C25_MarkersInOneRun ==
    (/\ fnStage = "done"
     /\ getActiveSource(config) = "start-of-child-blocks"
     /\ fnResult.hasProcessedRichTexts) =>
        \A i \in FnFields :
            (\A n \in 1..Len(MarkersIn(i)) : InOneRun(i, n)) => OneSpanPerMarker(i)

----------------------------------------------------------------------------
(* Specification SpecSource: extractFootnotesFromBlock on a block, under   *)
(* each source and under no source.                                        *)

\* the tokens of the text of the block: other text, an inline marker, the
\* start of a definition after a blank line and at the start of a line
FrameTokens ==
    {TokX, TokRefA, TokDefA, TokRefA \o TokColon}

\* the children of the block: none, definition-prefixed ones, others
FrameChildren ==
    {<< >>,
     << << StyledSpan(TokRefA \o TokColon \o TokSp \o <<"n">>, "plain") >> >>,
     << << StyledSpan(TokRefA \o TokColon \o TokSp \o <<"n">>, "plain") >>,
        << StyledSpan(<<"p", "l", "a", "i", "n">>, "plain") >> >>,
     << << StyledSpan(TokRefB \o TokColon \o TokSp \o <<"n">>, "plain") >>,
        << StyledSpan(TokRefA \o TokColon \o TokSp \o <<"n">>, "plain") >> >>}

\* the comments of the block: none, a definition, a definition with files
\* followed by plain text
FrameResponses ==
    {<< >>,
     << CommentOf(<< NotionRichText(TokRefA \o TokColon \o TokSp \o <<"n">>, FALSE, FALSE) >>,
                  << >>) >>,
     << CommentOf(<< NotionRichText(TokRefA \o TokColon \o TokSp \o <<"n">>, FALSE, FALSE) >>,
                  << Attachment("u") >>),
        CommentOf(<< NotionRichText(<<"p", "l", "a", "i", "n">>, FALSE, FALSE) >>, << >>) >>}

SourceInit ==
    /\ CitIdle
    /\ BibIdle
    /\ SplitIdle
    /\ config \in {NoConfig, EobConfig, ScbConfig, BcConfig}
    /\ \E t \in TokenTexts(FrameTokens, MaxFrameTokens) :
       \E rts \in SpanningsOf(t) \cup {CutSpans(t, 0, "plain")} :
       \E rtss \in (IF getActiveSource(config) = "start-of-child-blocks"
                    THEN FrameChildren ELSE {<< >>}) :
          fnInput = MkBlock(<<"p", 0>>, "Paragraph", << rts >>,
                            rtss # << >>, ChildrenOf(rtss))
    /\ fnBlock = fnInput
    /\ fnResult = NoFootnotes
    /\ fnStage = "ready"
    /\ notionClient \in (IF getActiveSource(config) = "block-comments"
                         THEN BOOLEAN ELSE {FALSE})
    /\ response \in (IF getActiveSource(config) = "block-comments"
                     THEN FrameResponses ELSE {<< >>})
    /\ commentIndex = 0
    /\ patternLastIndex = 0
    /\ bcFootnotes = << >>
    /\ listCalls = 0
    /\ logged = "none"

\* extractFootnotesFromBlock, no source enabled (the default of the switch)
NoSourceExtract ==
    /\ fnStage = "ready"
    /\ getActiveSource(config) = "null"
    /\ fnResult' = NoFootnotes
    /\ fnStage' = "done"
    /\ UNCHANGED <<config, fnInput, fnBlock, splitVars, bcVars, bibVars, citVars>>

SourceNext ==
    \/ NoSourceExtract
    \/ EobExtract
    \/ ScbExtract
    \/ BcStart
    \/ BcListReturns
    \/ BcListFails
    \/ BcComment
    \/ BcDownloadFails
    \/ BcFinish

SpecSource ==
    SourceInit /\ [][SourceNext]_vars

----------------------------------------------------------------------------
(* C13: when no inline marker is found in any field of the block,          *)
(* extractFootnotesFromBlock returns no footnote with                      *)
(* hasProcessedRichTexts and hasProcessedChildren false, and the block     *)
(* (every rich-text field and the children) stays as it was, under each    *)
(* source, whatever definition text, definition-prefixed children or       *)
(* matching comments the block has.                                        *)

C13_NoMarkerNoChange ==
    Len(InputMarkers) = 0 =>
        /\ fnBlock = fnInput
        /\ fnStage = "done" =>
              /\ fnResult.footnotes = << >>
              /\ ~fnResult.hasProcessedRichTexts
              /\ ~fnResult.hasProcessedChildren

\* a block without inline marker whose text holds a definition, returned
\* under start-of-child-blocks with a definition-prefixed child
C13_Witness ==
    /\ fnStage = "done"
    /\ Len(InputMarkers) = 0
    /\ getActiveSource(config) = "start-of-child-blocks"
    /\ DefinitionOffsets(InputText(1)) # {}
    /\ fnInput.HasChildren
    /\ ChildStartsWith(fnInput.Children[1], <<"a">>)

----------------------------------------------------------------------------
(* C14: block-comments: notionClient.comments.list is called at most once  *)
(* per block, and only for a block in which findAllFootnoteMarkers found   *)
(* at least one inline marker; it is never called for a block without      *)
(* marker, nor under another source.                                       *)

C14_ListOnceAndOnlyWithMarkers ==
    /\ listCalls <= 1
    /\ listCalls = 1 =>
          /\ Len(InputMarkers) >= 1
          /\ getActiveSource(config) = "block-comments"

\* a block with a marker whose comments were listed once and processed
C14_Witness ==
    /\ fnStage = "done"
    /\ listCalls = 1
    /\ logged = "none"
    /\ Len(response) >= 1
    /\ commentIndex > Len(response)

----------------------------------------------------------------------------
(* C26: under each of the three sources, every footnote returned by        *)
(* extractFootnotesFromBlock has as Marker the key of an inline marker     *)
(* found in the same block: a definition, child block or comment whose key *)
(* no inline marker references gives no footnote.                          *)

C26_EveryFootnoteReferenced ==
    fnStage = "done" =>
        \A n \in 1..Len(Footnotes) : Footnotes[n].Marker \in InputMarkerKeys

\* the same statement for the end-of-block source alone
C26_EndOfBlockOnly ==
    (fnStage = "done" /\ getActiveSource(config) = "end-of-block") =>
        \A n \in 1..Len(Footnotes) : Footnotes[n].Marker \in InputMarkerKeys

----------------------------------------------------------------------------
(* C15: block-comments: when the provider call fails (permission denied or *)
(* another error) or a step of the processing of a comment fails, the call *)
(* ends with a result and not with an exception: no footnote,              *)
(* hasProcessedRichTexts false, and every rich-text field of the block as  *)
(* it was before the call.                                                 *)

C15_FailureDegradesToNoFootnotes ==
    logged # "none" =>
        /\ fnStage = "done"
        /\ fnResult.footnotes = << >>
        /\ ~fnResult.hasProcessedRichTexts
        /\ \A i \in FnFields : fnBlock.RichTexts[i] = fnInput.RichTexts[i]

\* the download of a file of the second comment fails after the first
\* comment was processed
C15_Witness ==
    /\ logged = "error"
    /\ fnStage = "done"
    /\ commentIndex = 2
    /\ Len(InputMarkers) >= 1

----------------------------------------------------------------------------
(* Specification SpecPrep: prepareBibliography applied to a list.          *)

AuthorNames ==
    {<<"a">>, <<"B">>, <<"b">>, <<"A", "b">>}

Indexes ==
    {NoIndex, IndexOf(1), IndexOf(2)}

\* lists of citations; the key of a citation is its position in the list
IsPrepInput(list) ==
    \E n \in 0..MaxCitations :
    \E authors \in [1..n -> AuthorNames] :
    \E indexes \in [1..n -> Indexes] :
        list = [i \in 1..n |-> MkCitation(i, authors[i], indexes[i])]

PrepInit ==
    /\ SplitIdle
    /\ FnIdle
    /\ BcIdle
    /\ BibIdle
    /\ citConfig = [format |-> "", ieee |-> FALSE]
    /\ bibEntries = << >>
    /\ citInput = MkBlock("none", "Paragraph", << << >> >>, FALSE, << >>)
    /\ citBlock = citInput
    /\ citResult = NoCitations
    /\ citStage = "idle"
    /\ IsPrepInput(prepCitations)
    /\ prepStyle \in {"apa", "simplified-ieee"}
    /\ sorted = << >>
    /\ prepStage = "ready"

Prepare ==
    /\ prepStage = "ready"
    /\ sorted' = prepareBibliography(prepCitations, prepStyle)
    /\ prepStage' = "done"
    /\ UNCHANGED <<prepCitations, prepStyle, citConfig, bibEntries, citInput, citBlock,
                   citResult, citStage, splitVars, fnVars, bcVars, bibVars>>

PrepNext ==
    Prepare

SpecPrep ==
    PrepInit /\ [][PrepNext]_vars

\* a comes no later than b in the order of the style: by Index, an absent
\* Index counting as 0, or by Authors in the order of localeCompare
NoLater(a, b) ==
    IF prepStyle = "simplified-ieee"
    THEN IndexOrZero(a) <= IndexOrZero(b)
    ELSE localeCompare(a.Authors, b.Authors) <= 0

----------------------------------------------------------------------------
(* C17: prepareBibliography returns the citations of the input, each once, *)
(* in non-decreasing Index order under simplified-ieee and in              *)
(* non-decreasing Authors order under apa; two citations that compare      *)
(* equal are in the order they had in the input.                           *)

C17_SortedAndStable ==
    prepStage = "done" =>
        /\ Len(sorted) = Len(prepCitations)
        /\ \A i \in 1..Len(prepCitations) :
              \E j \in 1..Len(sorted) : sorted[j] = prepCitations[i]
        /\ \A i, j \in 1..Len(sorted) :
              i < j =>
                  /\ NoLater(sorted[i], sorted[j])
                  /\ NoLater(sorted[j], sorted[i]) => sorted[i].Key < sorted[j].Key

\* three citations out of order, two of them comparing equal
C17_Witness ==
    /\ prepStage = "done"
    /\ Len(sorted) = 3
    /\ sorted # prepCitations
    /\ \E i \in 1..2 :
          /\ NoLater(sorted[i], sorted[i + 1])
          /\ NoLater(sorted[i + 1], sorted[i])

----------------------------------------------------------------------------
(* Specification SpecRange: extractRichTextRange applied to the whole text *)
(* of a span sequence.                                                     *)

\* the characters of the text of a span: a blank, another character
RangeChars ==
    {" ", "x"}

RangeTexts ==
    SeqsUpTo(RangeChars, MaxRangeSpanLen)

\* sequences of text runs, or of mentions (spans without Text)
IsRangeInput(rts) ==
    \E n \in 0..MaxRangeSpans :
    \E texts \in [1..n -> RangeTexts] :
    \E style \in {"plain", "mention"} :
        rts = [i \in 1..n |-> StyledSpan(texts[i], style)]

RangeInit ==
    /\ FnIdle
    /\ BcIdle
    /\ BibIdle
    /\ CitIdle
    /\ IsRangeInput(richTexts)
    /\ splitCharPos = 0
    /\ splitFn = NoSplit
    /\ splitCit = NoSplit
    /\ rangeResult = NoRange
    /\ prefixResult = NoRange

\* extractRichTextRange(richTexts, 0, joinPlainText(richTexts).length)
ExtractRange ==
    /\ ~rangeResult.done
    /\ rangeResult' =
           [done |-> TRUE,
            richTexts |-> extractRichTextRange(richTexts, 0,
                                               Len(joinPlainText(richTexts)))]
    /\ UNCHANGED <<richTexts, splitCharPos, splitFn, splitCit, prefixResult, fnVars,
                   bcVars, bibVars, citVars>>

RangeNext ==
    ExtractRange

SpecRange ==
    RangeInit /\ [][RangeNext]_vars

----------------------------------------------------------------------------
(* C19: for every span sequence S, the joined text of                      *)
(* extractRichTextRange(S, 0, len(join(S))) with leading and trailing      *)
(* whitespace trimmed equals join(S) with leading and trailing whitespace  *)
(* trimmed.                                                                *)

C19_WholeRangeKeepsTrimmedText ==
    rangeResult.done =>
        trim(joinPlainText(rangeResult.richTexts)) = trim(joinPlainText(richTexts))

\* whitespace at both ends of the text, spread over more than the first and
\* the last span, and whitespace inside the text
C19_Witness ==
    /\ rangeResult.done
    /\ Len(richTexts) = 3
    /\ richTexts[1].PlainText = <<" ">>
    /\ richTexts[2].PlainText = <<" ", "x">>
    /\ richTexts[3].PlainText = <<" ", " ">>
    /\ joinPlainText(rangeResult.richTexts) # joinPlainText(richTexts)

----------------------------------------------------------------------------
(* Specification SpecPrefix: removeMarkerPrefix applied to a span sequence *)
(* and a prefix length.                                                    *)

PrefixStyles ==
    {"plain", "link", "mention"}

\* up to MaxSpans spans of up to MaxSpanLen characters, empty spans included
IsPrefixInput(rts) ==
    \E n \in 0..MaxSpans :
    \E lens \in [1..n -> 0..MaxSpanLen] :
    \E styles \in [1..n -> PrefixStyles] :
        rts = SlicedSpans(lens, styles)

\* the prefix length: from 0 to one more than the length of the text
PrefixInit ==
    /\ FnIdle
    /\ BcIdle
    /\ BibIdle
    /\ CitIdle
    /\ IsPrefixInput(richTexts)
    /\ splitCharPos \in 0..(Len(joinPlainText(richTexts)) + 1)
    /\ splitFn = NoSplit
    /\ splitCit = NoSplit
    /\ rangeResult = NoRange
    /\ prefixResult = NoRange

\* removeMarkerPrefix(richTexts, splitCharPos): the array handed over is
\* copied and the span that is cut is cloned, richTexts is not written
RemovePrefix ==
    /\ ~prefixResult.done
    /\ prefixResult' = [done |-> TRUE,
                        richTexts |-> removeMarkerPrefix(richTexts, splitCharPos)]
    /\ UNCHANGED <<richTexts, splitCharPos, splitFn, splitCit, rangeResult, fnVars,
                   bcVars, bibVars, citVars>>

PrefixNext ==
    RemovePrefix

SpecPrefix ==
    PrefixInit /\ [][PrefixNext]_vars

----------------------------------------------------------------------------
(* C30: removeMarkerPrefix(R, n) removes the first n characters of the     *)
(* joined text and nothing else: the joined result is join(R) without its  *)
(* first n characters, empty when n >= len(join(R)); every span of the     *)
(* result is a span of R, in R's order, with all its fields, the span the  *)
(* prefix ends in keeping the rest of its characters as PlainText and as   *)
(* Text.Content; R is as it was handed over, its text still the one it    *)
(* was made of.                                                            *)

\* span is the span original, whole or without some of its first characters
IsTailOf(span, original) ==
    /\ span = WithPlainText(original, span.PlainText)
    /\ Len(span.PlainText) <= Len(original.PlainText)
    /\ span.PlainText = substringFrom(original.PlainText,
                                      Len(original.PlainText) - Len(span.PlainText))

C30_WitnessAll ==
    /\ prefixResult.done
    /\ joinPlainText(richTexts) # << >>
    /\ splitCharPos > Len(joinPlainText(richTexts))
    /\ prefixResult.richTexts = << >>

====
